---- MODULE Spec2Model ----
(***************************************************************************)
(* Verification model of the mental-health live chat pipeline:             *)
(*   - MessageBus (src/message_bus.py): topics, consumers, metrics and the *)
(*     delivery threads started by _notify_consumers;                      *)
(*   - KafkaManager.start_consumer.internal_callback                       *)
(*     (src/kafka_manager.py) and sentiment_callback (src/app.py): the     *)
(*     consumer-side dedup and statistics, run by delivery threads;        *)
(*   - MentalHealthSentimentAnalyzer (src/sentiment_analyzer.py): the      *)
(*     short-text exit, the score adjustment, the crisis override and the  *)
(*     thresholds;                                                         *)
(*   - api_send_message and handle_chat_message (src/app.py): the          *)
(*     ingestion entry points with their checks and publishes.             *)
(***************************************************************************)
EXTENDS Integers, Sequences, FiniteSets, TLC

(***************************************************************************)
(* Bounds of the model.                                                    *)
(***************************************************************************)
\* Capacity of a topic. The program sets 1000 (src/message_bus.py:20); the
\* model keeps the deque(maxlen=...) semantics with a small capacity so that
\* overflow happens within the explored runs.
max_messages_per_topic == 2

\* Number of send_message calls explored by the store-level specification.
MaxSends == 3

\* Number of send_message calls explored when the delivery threads run too.
MaxDeliverSends == 2

\* Number of subscribe calls explored.
MaxSubscribes == 2

\* Last value of the millisecond clock.
MaxClock == 1

\* Number of sentiment records published to the results topic.
MaxResults == 2

\* Size above which internal_callback clears processed_message_ids. The
\* program sets 1000 (src/kafka_manager.py:81).
ProcessedIdsCeiling == 1

\* Length above which internal_callback pops recent_messages. The program
\* sets 100 (src/kafka_manager.py:25).
max_messages == 1

\* Size above which cleanup_history truncates a history set. The program
\* sets 1000 (src/app.py:42).
MAX_HISTORY_SIZE == 1

\* sentiment_callback calls cleanup_history when total_messages is a multiple
\* of this. The program sets 50 (src/app.py:105).
CleanupPeriod == 2

\* Longest run of characters put before and after a crisis phrase.
MaxPadLen == 2

\* Number of submissions made to the ingestion entry points.
MaxSubmissions == 2

\* Last value of the microsecond part of the clock within one millisecond.
MaxMicros == 1

(***************************************************************************)
(* Input sets.                                                             *)
(***************************************************************************)
chat_topic == "mental-health-chat"

results_topic == "sentiment-results"

TopicNames == {chat_topic, results_topic}

\* group_id arguments of subscribe; "None" stands for Python's None.
GroupIds == {"None", "dashboard-consumer"}

\* Callback handles. "opaque" is any callback the bus knows nothing about.
Callbacks == {"opaque"}

VARIABLES
    topics,        \* MessageBus.topics: topic name -> stored messages (oldest first)
    consumers,     \* MessageBus.consumers: topic name -> list of consumer records
    metrics,       \* MessageBus.metrics
    now,           \* wall clock, in milliseconds
    threads,       \* delivery threads started by _notify_consumers, in start order
    sent,          \* history: the send_message calls in lock order, with what they returned
    subscribedAt,  \* history: <<topic, ordinal>> -> number of publishes completed at subscribe
    processed_message_ids,  \* KafkaManager.processed_message_ids
    recent_messages,        \* KafkaManager.recent_messages
    stats,                  \* app.stats (the counters)
    sentiment_history,      \* app.sentiment_history
    message_history,        \* app.message_history
    documents,              \* ElasticsearchManager.documents
    events,                 \* socketio.emit calls, in order
    last_processed,         \* history: the id last added to processed_message_ids
    last_counted,           \* history: the key last added to sentiment_history
    call,                   \* the inputs of a call of analyze_sentiment (<<>>: no call)
    returned,               \* what that call returned (<<>>: not yet)
    responses,              \* history: the answers of the ingestion handlers, in order
    lock,                   \* MessageBus.lock (an RLock): owning thread (0: free), depth and,
                            \* as history, how often it passed to a new owner
    calls,                  \* the calls in progress (bus operations, ingestion handlers):
                            \* calling thread -> its position
    observed                \* what the read made in the last step returned (<<>>: no read)

storeVars == <<topics, consumers, metrics, now, sent, subscribedAt>>

busVars == <<topics, consumers, metrics, now, threads, sent, subscribedAt>>

kafkaVars == <<processed_message_ids, recent_messages, last_processed>>

appVars == <<stats, sentiment_history, message_history, documents, events, last_counted>>

analyzerVars == <<call, returned>>

webVars == <<responses>>

sideVars == <<lock, calls, observed>>

vars == <<busVars, kafkaVars, appVars, analyzerVars, webVars, sideVars>>

(***************************************************************************)
(* MessageBus (src/message_bus.py)                                         *)
(***************************************************************************)

\* f"{group_id or 'default'}_{len(self.consumers[topic_name])}"
ConsumerId(group_id, n) ==
    <<IF group_id = "None" THEN "default" ELSE group_id, n>>

\* Mutant of DequeAppend: the deque has no maxlen.
DequeAppend_Unbounded(q, x) ==
    Append(q, x)

\* Mutant of DequeAppend: a full deque discards its newest item.
DequeAppend_DropNewest(q, x) ==
    IF Len(q) >= max_messages_per_topic
    THEN Append(SubSeq(q, 1, Len(q) - 1), x)
    ELSE Append(q, x)

\* deque(maxlen=max_messages_per_topic).append(x): append on the right and,
\* when the deque was full, discard one item from the left.
DequeAppend(q, x) ==
    IF Len(q) >= max_messages_per_topic
    THEN Tail(Append(q, x))
    ELSE Append(q, x)

\* self.topics after create_topic(topic_name), given self.topics = tps.
TopicsAfterCreate(tps, topic_name) ==
    IF topic_name \notin DOMAIN tps
    THEN tps @@ (topic_name :> <<>>)
    ELSE tps

\* Mutant of MetricsAfterCreate: a created topic is not counted.
MetricsAfterCreate_Never(tps, mts, topic_name) ==
    mts

\* Mutant of MetricsAfterCreate: every call counts, also for an existing name.
MetricsAfterCreate_Always(tps, mts, topic_name) ==
    [mts EXCEPT !.topics_created = @ + 1]

\* self.metrics after create_topic(topic_name), given self.topics = tps.
MetricsAfterCreate(tps, mts, topic_name) ==
    IF topic_name \notin DOMAIN tps
    THEN [mts EXCEPT !.topics_created = @ + 1]
    ELSE mts

\* Mutant of NotifyTargets: the consumers of every topic are notified.
NotifyTargets_EveryTopic(topic_name) ==
    [c \in 1..Len(consumers[chat_topic]) |-> <<chat_topic, c>>]
        \o [c \in 1..Len(consumers[results_topic]) |-> <<results_topic, c>>]

\* Mutant of NotifyTargets: one consumer per group_id is notified, the first.
NotifyTargets_FirstOfGroup(topic_name) ==
    LET firsts == SelectSeq([c \in 1..Len(consumers[topic_name]) |-> c],
                     LAMBDA c : \A d \in 1..(c - 1) :
                         consumers[topic_name][d].group_id
                             # consumers[topic_name][c].group_id)
    IN [k \in 1..Len(firsts) |-> <<topic_name, firsts[k]>>]

\* The consumers _notify_consumers starts a thread for, in order: every
\* consumer of self.consumers[topic_name], named <<topic, ordinal>>.
NotifyTargets(topic_name) ==
    [c \in 1..Len(consumers[topic_name]) |-> <<topic_name, c>>]

\* Mutant of SubscribeStarts: subscribe replays the retained messages.
SubscribeStarts_Backfill(topic_name, ordinal) ==
    IF topic_name \in DOMAIN topics
    THEN [k \in 1..Len(topics[topic_name]) |->
             [topic |-> topic_name, consumer |-> ordinal,
              message |-> topics[topic_name][k],
              seq |-> CHOOSE n \in 1..Len(sent) :
                         /\ sent[n].topic = topic_name
                         /\ sent[n].message = topics[topic_name][k],
              pc |-> "started",
              reg |-> 0]]
    ELSE <<>>

\* The delivery threads subscribe starts for the new consumer: none, it only
\* appends the consumer record.
SubscribeStarts(topic_name, ordinal) ==
    <<>>

\* create_topic runs wholly under self.lock.
create_topic(topic_name) ==
    /\ topics' = TopicsAfterCreate(topics, topic_name)
    /\ metrics' = MetricsAfterCreate(topics, metrics, topic_name)
    /\ UNCHANGED <<consumers, now, threads, sent, subscribedAt>>

\* Mutant of StartedThread: the callback is run to its end before the
\* dispatcher goes on.
StartedThread_RunInline(target, message_data, seq) ==
    [topic |-> target[1],
     consumer |-> target[2],
     message |-> message_data,
     seq |-> seq,
     pc |-> "done",
     reg |-> 0]

\* threading.Thread(target=consumer['callback'], args=(message_data,),
\* daemon=True).start(): the thread is started and not joined.
StartedThread(target, message_data, seq) ==
    [topic |-> target[1],
     consumer |-> target[2],
     message |-> message_data,
     seq |-> seq,
     pc |-> "started",
     reg |-> 0]

\* The fields of the bus that send_message writes.
Bus == [topics |-> topics, metrics |-> metrics, threads |-> threads, sent |-> sent]

\* send_message(topic_name, message) on the bus b: lines 42-60, with
\* _notify_consumers. Thread.start() is taken to succeed.
AfterSend(b, topic_name, message) ==
    LET tps == TopicsAfterCreate(b.topics, topic_name)
        mts == MetricsAfterCreate(b.topics, b.metrics, topic_name)
        message_data == [message_id |-> now, timestamp |-> now, data |-> message]
        seq == Len(b.sent) + 1
        targets == NotifyTargets(topic_name)
        started == [i \in 1..Len(targets) |->
                       StartedThread(targets[i], message_data, seq)]
    IN [topics |-> [tps EXCEPT ![topic_name] = DequeAppend(@, message_data)],
        metrics |-> [mts EXCEPT !.messages_sent = @ + 1,
                                !.messages_consumed = @ + Len(targets)],
        threads |-> b.threads \o started,
        sent |-> Append(b.sent, [topic |-> topic_name, message |-> message_data,
                                 returned |-> TRUE])]

\* send_message runs wholly under self.lock (the RLock is re-entered by
\* create_topic and _notify_consumers). Thread.start() returns at once; the
\* callback runs later, in the started thread.
send_message(topic_name, message) ==
    /\ LET b == AfterSend(Bus, topic_name, message)
       IN /\ topics' = b.topics
          /\ metrics' = b.metrics
          /\ threads' = b.threads
          /\ sent' = b.sent
    /\ UNCHANGED <<consumers, now, subscribedAt>>

\* subscribe runs wholly under self.lock.
subscribe(topic_name, callback, group_id) ==
    LET n == Len(consumers[topic_name])
    IN /\ consumers' = [consumers EXCEPT ![topic_name] =
              Append(@, [id |-> ConsumerId(group_id, n),
                         callback |-> callback,
                         group_id |-> group_id,
                         last_offset |-> -1])]
       /\ subscribedAt' = subscribedAt @@ (<<topic_name, n + 1>> :> Len(sent))
       /\ threads' = threads \o SubscribeStarts(topic_name, n + 1)
       /\ UNCHANGED <<topics, metrics, now, sent>>

\* A started delivery thread runs its target, consumer['callback'](message_data),
\* here a callback that does not touch the bus.
RunCallback(i) ==
    /\ i \in 1..Len(threads)
    /\ threads[i].pc = "started"
    /\ consumers[threads[i].topic][threads[i].consumer].callback = "opaque"
    /\ threads' = [threads EXCEPT ![i].pc = "done"]
    /\ UNCHANGED storeVars

\* The target of a started delivery thread raises. The try of
\* _notify_consumers (lines 80-89) encloses Thread(...).start() in the
\* publisher and has been left when the target runs, so the exception leaves
\* the callback uncaught and ends the delivery thread.
RaiseCallback(i) ==
    /\ i \in 1..Len(threads)
    /\ threads[i].pc = "started"
    /\ consumers[threads[i].topic][threads[i].consumer].callback = "opaque"
    /\ threads' = [threads EXCEPT ![i].pc = "uncaught"]
    /\ UNCHANGED storeVars

\* A millisecond passes.
Tick ==
    /\ now < MaxClock
    /\ now' = now + 1
    /\ UNCHANGED <<topics, consumers, metrics, threads, sent, subscribedAt>>
    /\ UNCHANGED <<kafkaVars, appVars, analyzerVars, webVars, sideVars>>

\* message_bus = MessageBus()
BusInit ==
    /\ topics = <<>>
    /\ consumers = [t \in TopicNames |-> <<>>]
    /\ metrics = [messages_sent |-> 0, messages_consumed |-> 0, topics_created |-> 0]
    /\ now = 0
    /\ threads = <<>>
    /\ sent = <<>>
    /\ subscribedAt = <<>>

(***************************************************************************)
(* Sentiment records, as published to the results topic by                 *)
(* KafkaManager.send_sentiment_result. Strings that the program            *)
(* concatenates are sequences of characters.                               *)
(***************************************************************************)
Labels == {"POSITIVE", "NEGATIVE", "NEUTRAL", "CRISIS"}

Record(pid, user, txt, ts, label, ctx) ==
    [processed_id |-> pid, username |-> user, text |-> txt, timestamp |-> ts,
     sentiment_label |-> label, mental_health_context |-> [has_any_context |-> ctx]]

\* Two records of one (username, text, timestamp) under two processed ids, a
\* second CRISIS record that shares a processed id with one of them (the id
\* is a millisecond stamp) and a NEUTRAL record.
Records ==
    { Record("_1", <<"u">>, <<"s", "o", "s">>, <<"1">>, "CRISIS", TRUE),
      Record("_2", <<"u">>, <<"s", "o", "s">>, <<"1">>, "CRISIS", TRUE),
      Record("_2", <<"v">>, <<"s", "o", "s">>, <<"1">>, "CRISIS", TRUE),
      Record("_4", <<"u">>, <<"o", "k">>, <<"2">>, "NEUTRAL", FALSE) }

(***************************************************************************)
(* KafkaManager.start_consumer.internal_callback (src/kafka_manager.py)    *)
(* and sentiment_callback (src/app.py). A delivery thread of the results   *)
(* topic runs internal_callback, which calls sentiment_callback. Neither   *)
(* takes a lock: a step below is one access to shared state, and another   *)
(* thread may run between any two steps.                                   *)
(***************************************************************************)
Data(i) == threads[i].message.data

At(i, p) ==
    /\ i \in 1..Len(threads)
    /\ consumers[threads[i].topic][threads[i].consumer].callback = "internal_callback"
    /\ threads[i].pc = p

Goto(i, p) == threads' = [threads EXCEPT ![i].pc = p]

GotoReg(i, p, v) == threads' = [threads EXCEPT ![i].pc = p, ![i].reg = v]

\* data.get('processed_id') or data.get('message_id'): send_sentiment_result
\* sets processed_id to a non-empty string on every record it publishes.
MessageIdOf(data) == data.processed_id

\* f"{username}_{text}_{timestamp}"
generate_message_id(sentiment_data) ==
    sentiment_data.username \o <<"_">> \o sentiment_data.text
        \o <<"_">> \o sentiment_data.timestamp

\* Mutant of AlreadyProcessed: the membership check is skipped.
AlreadyProcessed_Never(message_id) ==
    FALSE

\* message_id in self.processed_message_ids
AlreadyProcessed(message_id) ==
    message_id \in processed_message_ids

\* Mutant of Duplicate: the membership check is skipped.
Duplicate_Never(message_id) ==
    FALSE

\* message_id in sentiment_history
Duplicate(message_id) ==
    message_id \in sentiment_history

\* -MAX_HISTORY_SIZE//2 as a slice start keeps this many items: the unary
\* minus applies first and // rounds down.
KeptByCleanup == (MAX_HISTORY_SIZE + 1) \div 2

\* list(history)[-MAX_HISTORY_SIZE//2:]: a set is listed in hash order, so the
\* items kept are any KeptByCleanup of them (all, when there are fewer).
CleanupKeeps(history_list) ==
    {K \in SUBSET history_list :
        Cardinality(K) = IF Cardinality(history_list) < KeptByCleanup
                         THEN Cardinality(history_list)
                         ELSE KeptByCleanup}

\* kafka_manager.py lines 72-77
ic_check(i) ==
    /\ At(i, "started")
    /\ IF AlreadyProcessed(MessageIdOf(Data(i)))
       THEN Goto(i, "dropped_ic")
       ELSE Goto(i, "ic_add")
    /\ UNCHANGED <<analyzerVars, webVars, sideVars, storeVars, kafkaVars, appVars>>

\* kafka_manager.py line 80
ic_add(i) ==
    /\ At(i, "ic_add")
    /\ processed_message_ids' = processed_message_ids \cup {MessageIdOf(Data(i))}
    /\ last_processed' = MessageIdOf(Data(i))
    /\ Goto(i, "ic_len")
    /\ UNCHANGED <<analyzerVars, webVars, sideVars, storeVars, recent_messages, appVars>>

\* kafka_manager.py line 81
ic_len(i) ==
    /\ At(i, "ic_len")
    /\ IF Cardinality(processed_message_ids) > ProcessedIdsCeiling
       THEN Goto(i, "ic_clear")
       ELSE Goto(i, "ic_append")
    /\ UNCHANGED <<analyzerVars, webVars, sideVars, storeVars, kafkaVars, appVars>>

\* kafka_manager.py line 82
ic_clear(i) ==
    /\ At(i, "ic_clear")
    /\ processed_message_ids' = {}
    /\ Goto(i, "ic_append")
    /\ UNCHANGED <<analyzerVars, webVars, sideVars, storeVars, recent_messages, last_processed, appVars>>

\* kafka_manager.py line 85
ic_append(i) ==
    /\ At(i, "ic_append")
    /\ recent_messages' = Append(recent_messages, Data(i))
    /\ Goto(i, "ic_trim")
    /\ UNCHANGED <<analyzerVars, webVars, sideVars, storeVars,
                   processed_message_ids, last_processed, appVars>>

\* kafka_manager.py line 86
ic_trim(i) ==
    /\ At(i, "ic_trim")
    /\ IF Len(recent_messages) > max_messages
       THEN Goto(i, "ic_pop")
       ELSE Goto(i, "sc_check")
    /\ UNCHANGED <<analyzerVars, webVars, sideVars, storeVars, kafkaVars, appVars>>

\* kafka_manager.py line 87; pop(0) of an empty list raises IndexError, which
\* line 93 catches.
ic_pop(i) ==
    /\ At(i, "ic_pop")
    /\ IF recent_messages # <<>>
       THEN recent_messages' = Tail(recent_messages) /\ Goto(i, "sc_check")
       ELSE recent_messages' = recent_messages /\ Goto(i, "done")
    /\ UNCHANGED <<analyzerVars, webVars, sideVars, storeVars,
                   processed_message_ids, last_processed, appVars>>

\* app.py lines 68-71, entered from kafka_manager.py line 91
sc_check(i) ==
    /\ At(i, "sc_check")
    /\ IF Duplicate(generate_message_id(Data(i)))
       THEN Goto(i, "dropped_sc")
       ELSE Goto(i, "sc_add")
    /\ UNCHANGED <<analyzerVars, webVars, sideVars, storeVars, kafkaVars, appVars>>

\* app.py line 73
sc_add(i) ==
    /\ At(i, "sc_add")
    /\ sentiment_history' = sentiment_history \cup {generate_message_id(Data(i))}
    /\ last_counted' = generate_message_id(Data(i))
    /\ Goto(i, "sc_total_load")
    /\ UNCHANGED <<analyzerVars, webVars, sideVars, storeVars,
                   kafkaVars, stats, message_history, documents, events>>

\* app.py line 76, the read of stats['total_messages'] += 1
sc_total_load(i) ==
    /\ At(i, "sc_total_load")
    /\ GotoReg(i, "sc_total_store", stats.total_messages)
    /\ UNCHANGED <<analyzerVars, webVars, sideVars, storeVars, kafkaVars, appVars>>

\* app.py line 76, the write of stats['total_messages'] += 1
sc_total_store(i) ==
    /\ At(i, "sc_total_store")
    /\ stats' = [stats EXCEPT !.total_messages = threads[i].reg + 1]
    /\ Goto(i, IF Data(i).sentiment_label \in DOMAIN stats.sentiment_counts
               THEN "sc_count_load"
               ELSE "sc_context")
    /\ UNCHANGED <<analyzerVars, webVars, sideVars, storeVars, kafkaVars, sentiment_history, message_history,
                   documents, events, last_counted>>

\* app.py line 80, the read of stats['sentiment_counts'][label] += 1
sc_count_load(i) ==
    /\ At(i, "sc_count_load")
    /\ GotoReg(i, "sc_count_store", stats.sentiment_counts[Data(i).sentiment_label])
    /\ UNCHANGED <<analyzerVars, webVars, sideVars, storeVars, kafkaVars, appVars>>

\* app.py line 80, the write of stats['sentiment_counts'][label] += 1
sc_count_store(i) ==
    /\ At(i, "sc_count_store")
    /\ stats' = [stats EXCEPT !.sentiment_counts[Data(i).sentiment_label] =
                     threads[i].reg + 1]
    /\ Goto(i, "sc_context")
    /\ UNCHANGED <<analyzerVars, webVars, sideVars, storeVars, kafkaVars, sentiment_history, message_history,
                   documents, events, last_counted>>

\* app.py lines 82-83, the read of stats['mental_health_messages'] += 1
sc_context(i) ==
    /\ At(i, "sc_context")
    /\ IF Data(i).mental_health_context.has_any_context
       THEN GotoReg(i, "sc_context_store", stats.mental_health_messages)
       ELSE Goto(i, "sc_crisis")
    /\ UNCHANGED <<analyzerVars, webVars, sideVars, storeVars, kafkaVars, appVars>>

\* app.py line 83, the write of stats['mental_health_messages'] += 1
sc_context_store(i) ==
    /\ At(i, "sc_context_store")
    /\ stats' = [stats EXCEPT !.mental_health_messages = threads[i].reg + 1]
    /\ Goto(i, "sc_crisis")
    /\ UNCHANGED <<analyzerVars, webVars, sideVars, storeVars, kafkaVars, sentiment_history, message_history,
                   documents, events, last_counted>>

\* app.py lines 85-86, the read of stats['crisis_alerts'] += 1
sc_crisis(i) ==
    /\ At(i, "sc_crisis")
    /\ IF Data(i).sentiment_label = "CRISIS"
       THEN GotoReg(i, "sc_crisis_store", stats.crisis_alerts)
       ELSE Goto(i, "sc_index")
    /\ UNCHANGED <<analyzerVars, webVars, sideVars, storeVars, kafkaVars, appVars>>

\* app.py line 86, the write of stats['crisis_alerts'] += 1
sc_crisis_store(i) ==
    /\ At(i, "sc_crisis_store")
    /\ stats' = [stats EXCEPT !.crisis_alerts = threads[i].reg + 1]
    /\ Goto(i, "sc_crisis_emit")
    /\ UNCHANGED <<analyzerVars, webVars, sideVars, storeVars, kafkaVars, sentiment_history, message_history,
                   documents, events, last_counted>>

\* app.py lines 88-93
sc_crisis_emit(i) ==
    /\ At(i, "sc_crisis_emit")
    /\ events' = Append(events, [event |-> "crisis_alert", thread |-> i,
                                 username |-> Data(i).username,
                                 message |-> Data(i).text,
                                 timestamp |-> Data(i).timestamp,
                                 severity |-> "HIGH"])
    /\ Goto(i, "sc_index")
    /\ UNCHANGED <<analyzerVars, webVars, sideVars, storeVars,
                   kafkaVars, stats, sentiment_history, message_history,
                   documents, last_counted>>

\* app.py line 96: ElasticsearchManager.index_sentiment_data appends a document
\* (its own timestamp is left out).
sc_index(i) ==
    /\ At(i, "sc_index")
    /\ documents' = Append(documents,
           [username |-> Data(i).username,
            message |-> Data(i).text,
            sentiment_label |-> Data(i).sentiment_label,
            mental_health_context |-> Data(i).mental_health_context.has_any_context])
    /\ Goto(i, "sc_emit")
    /\ UNCHANGED <<analyzerVars, webVars, sideVars, storeVars,
                   kafkaVars, stats, sentiment_history, message_history,
                   events, last_counted>>

\* app.py lines 99-102 (the statistics snapshot sent along is left out)
sc_emit(i) ==
    /\ At(i, "sc_emit")
    /\ events' = Append(events, [event |-> "sentiment_update", thread |-> i,
                                 username |-> Data(i).username,
                                 message |-> Data(i).text,
                                 timestamp |-> Data(i).timestamp,
                                 severity |-> "NONE"])
    /\ Goto(i, "sc_mod")
    /\ UNCHANGED <<analyzerVars, webVars, sideVars, storeVars,
                   kafkaVars, stats, sentiment_history, message_history,
                   documents, last_counted>>

\* app.py line 105
sc_mod(i) ==
    /\ At(i, "sc_mod")
    /\ IF stats.total_messages % CleanupPeriod = 0
       THEN Goto(i, "ch_message")
       ELSE Goto(i, "done")
    /\ UNCHANGED <<analyzerVars, webVars, sideVars, storeVars, kafkaVars, appVars>>

\* cleanup_history, app.py lines 53-62: for message_history and then for
\* sentiment_history, the length test with the list() copy, the clear() and
\* the update() are three steps.
cleanup_history(i) ==
    /\ \E p \in {"ch_message", "ch_message_clear", "ch_message_update",
                 "ch_sentiment", "ch_sentiment_clear", "ch_sentiment_update"} : At(i, p)
    /\ LET pc == threads[i].pc
       IN CASE pc = "ch_message" ->
                 /\ IF Cardinality(message_history) > MAX_HISTORY_SIZE
                    THEN GotoReg(i, "ch_message_clear", message_history)
                    ELSE Goto(i, "ch_sentiment")
                 /\ UNCHANGED <<message_history, sentiment_history>>
            [] pc = "ch_message_clear" ->
                 /\ message_history' = {}
                 /\ Goto(i, "ch_message_update")
                 /\ UNCHANGED sentiment_history
            [] pc = "ch_message_update" ->
                 /\ \E K \in CleanupKeeps(threads[i].reg) :
                        message_history' = message_history \cup K
                 /\ Goto(i, "ch_sentiment")
                 /\ UNCHANGED sentiment_history
            [] pc = "ch_sentiment" ->
                 /\ IF Cardinality(sentiment_history) > MAX_HISTORY_SIZE
                    THEN GotoReg(i, "ch_sentiment_clear", sentiment_history)
                    ELSE Goto(i, "done")
                 /\ UNCHANGED <<message_history, sentiment_history>>
            [] pc = "ch_sentiment_clear" ->
                 /\ sentiment_history' = {}
                 /\ Goto(i, "ch_sentiment_update")
                 /\ UNCHANGED message_history
            [] pc = "ch_sentiment_update" ->
                 /\ \E K \in CleanupKeeps(threads[i].reg) :
                        sentiment_history' = sentiment_history \cup K
                 /\ Goto(i, "done")
                 /\ UNCHANGED message_history
    /\ UNCHANGED <<analyzerVars, webVars, sideVars, storeVars,
                   kafkaVars, stats, documents, events, last_counted>>

\* index(), app.py lines 155-159: a page load clears both history sets.
index ==
    /\ message_history' = {}
    /\ sentiment_history' = {}
    /\ UNCHANGED <<analyzerVars, webVars, sideVars, busVars, kafkaVars, stats, documents, events,
                   last_counted>>

\* KafkaManager() and app.py's module-level state.
AppInit ==
    /\ processed_message_ids = {}
    /\ recent_messages = <<>>
    /\ last_processed = "none"
    /\ stats = [total_messages |-> 0,
                sentiment_counts |-> [l \in Labels |-> 0],
                mental_health_messages |-> 0,
                crisis_alerts |-> 0]
    /\ sentiment_history = {}
    /\ message_history = {}
    /\ documents = <<>>
    /\ events = <<>>
    /\ last_counted = "none"
    /\ responses = <<>>

\* The bus once app.py is imported: KafkaManager.setup_topics has created
\* both topics and start_consumer has subscribed internal_callback to the
\* results topic.
StartedBusInit ==
    /\ topics = [t \in TopicNames |-> <<>>]
    /\ consumers = [t \in TopicNames |->
                       IF t = results_topic
                       THEN <<[id |-> ConsumerId("dashboard-consumer", 0),
                               callback |-> "internal_callback",
                               group_id |-> "dashboard-consumer",
                               last_offset |-> -1]>>
                       ELSE <<>>]
    /\ metrics = [messages_sent |-> 0, messages_consumed |-> 0, topics_created |-> 2]
    /\ now = 0
    /\ threads = <<>>
    /\ sent = <<>>
    /\ subscribedAt = (<<results_topic, 1>> :> 0)

(***************************************************************************)
(* MentalHealthSentimentAnalyzer (src/sentiment_analyzer.py). Texts are    *)
(* sequences of characters. Scores are integers in thousandths (0.95 is    *)
(* 950); keyword weights and context scores are in tenths (1.5 is 15).     *)
(* The VADER compound score and the TextBlob subjectivity come from        *)
(* libraries and are inputs of a call, like the keyword sums of            *)
(* contains_mental_health_context.                                         *)
(***************************************************************************)
LowerLetters ==
    <<"a", "b", "c", "d", "e", "f", "g", "h", "i", "j", "k", "l", "m", "n", "o", "p", "q", "r", "s", "t", "u", "v", "w", "x", "y", "z">>

UpperLetters ==
    <<"A", "B", "C", "D", "E", "F", "G", "H", "I", "J", "K", "L", "M", "N", "O", "P", "Q", "R", "S", "T", "U", "V", "W", "X", "Y", "Z">>

\* str.upper() of one character
UpperChar(c) ==
    IF \E k \in 1..Len(LowerLetters) : LowerLetters[k] = c
    THEN UpperLetters[CHOOSE k \in 1..Len(LowerLetters) : LowerLetters[k] = c]
    ELSE c

\* str.lower() of one character
LowerChar(c) ==
    IF \E k \in 1..Len(UpperLetters) : UpperLetters[k] = c
    THEN LowerLetters[CHOOSE k \in 1..Len(UpperLetters) : UpperLetters[k] = c]
    ELSE c

\* text.lower()
Lower(text) == [k \in 1..Len(text) |-> LowerChar(text[k])]

\* phrase in text
Contains(text, phrase) ==
    \E p \in 0..(Len(text) - Len(phrase)) :
        SubSeq(text, p + 1, p + Len(phrase)) = phrase

\* The whitespace characters of the explored texts.
Whitespace == {" ", "\t", "\n"}

RECURSIVE LStrip(_)
LStrip(text) ==
    IF text # <<>> /\ Head(text) \in Whitespace THEN LStrip(Tail(text)) ELSE text

RECURSIVE RStrip(_)
RStrip(text) ==
    IF text # <<>> /\ text[Len(text)] \in Whitespace
    THEN RStrip(SubSeq(text, 1, Len(text) - 1))
    ELSE text

\* Mutant of Strip: only leading whitespace is removed.
Strip_LeftOnly(text) ==
    LStrip(text)

\* text.strip()
Strip(text) ==
    RStrip(LStrip(text))

\* sentiment_analyzer.py lines 168-171
crisis_phrases ==
    << <<"k", "i", "l", "l", " ", "m", "y", "s", "e", "l", "f">>,
       <<"w", "a", "n", "t", " ", "t", "o", " ", "d", "i", "e">>,
       <<"e", "n", "d", " ", "i", "t", " ", "a", "l", "l">>,
       <<"s", "u", "i", "c", "i", "d", "a", "l">>,
       <<"s", "e", "l", "f", " ", "h", "a", "r", "m">>,
       <<"c", "u", "t", "t", "i", "n", "g", " ", "m", "y", "s", "e", "l", "f">>,
       <<"o", "v", "e", "r", "d", "o", "s", "e">>,
       <<"n", "o", " ", "r", "e", "a", "s", "o", "n", " ", "t", "o", " ", "l", "i", "v", "e">> >>

\* Mutant of HasCrisisPhrase: the text is not lowered before the search.
HasCrisisPhrase_CaseSensitive(original_text) ==
    \E n \in 1..Len(crisis_phrases) : Contains(original_text, crisis_phrases[n])

\* any(phrase in original_text.lower() for phrase in crisis_phrases)
HasCrisisPhrase(original_text) ==
    \E n \in 1..Len(crisis_phrases) : Contains(Lower(original_text), crisis_phrases[n])

Min(a, b) == IF a < b THEN a ELSE b

Max(a, b) == IF a > b THEN a ELSE b

Abs(a) == IF a < 0 THEN -a ELSE a

\* contains_mental_health_context, lines 77-88, from the two keyword sums and
\* the emoticon score of the cleaned text.
ContextBundle(negative_sum, positive_sum, emoticon_score) ==
    LET positive_context_score == positive_sum + Max(0, emoticon_score) * 5
        mental_health_score == negative_sum + Max(0, -emoticon_score) * 5
    IN [is_mental_health |-> mental_health_score > 0 \/ positive_context_score > 0,
        mental_health_score |-> mental_health_score,
        positive_context_score |-> positive_context_score,
        has_any_context |-> mental_health_score > 0 \/ positive_context_score > 0,
        emoticon_score |-> emoticon_score]

\* Mutant of Clamp: the score is returned as computed.
Clamp_None(adjusted_score) ==
    adjusted_score

\* max(-1.0, min(1.0, adjusted_score)), line 161
Clamp(adjusted_score) ==
    Max(-1000, Min(1000, adjusted_score))

\* _adjust_sentiment_score, lines 138-161
adjust_sentiment_score(original_score, context, subjectivity) ==
    LET in_context ==
            IF context.is_mental_health
            THEN IF context.positive_context_score > context.mental_health_score
                 THEN original_score + 20 * Min(context.positive_context_score, 30)
                 ELSE IF context.mental_health_score > context.positive_context_score
                      THEN original_score - 15 * Min(context.mental_health_score, 40)
                      ELSE original_score
            ELSE original_score
        with_emoticons == in_context + context.emoticon_score * 100
        confidence_boost == subjectivity \div 10
        adjusted_score ==
            IF with_emoticons > 0 THEN with_emoticons + confidence_boost
            ELSE IF with_emoticons < 0 THEN with_emoticons - confidence_boost
            ELSE with_emoticons
    IN Clamp(adjusted_score)

\* Mutant of Classification: every NEGATIVE result needs attention.
Classification_AttentionByLabel(label, severity, confidence, needs_attention, risk_level) ==
    [label |-> label, severity |-> severity, confidence |-> confidence,
     needs_attention |-> label \in {"NEGATIVE", "CRISIS"}, risk_level |-> risk_level]

\* The dictionary _classify_sentiment returns (lines 176-183 and 243-250).
Classification(label, severity, confidence, needs_attention, risk_level) ==
    [label |-> label, severity |-> severity, confidence |-> confidence,
     needs_attention |-> needs_attention, risk_level |-> risk_level]

\* Mutant of classify_sentiment: the thresholds are exclusive.
classify_sentiment_Exclusive(score, context, original_text) ==
    IF HasCrisisPhrase(original_text)
    THEN Classification("CRISIS", "HIGH", 950, TRUE, "HIGH")
    ELSE IF context.is_mental_health
    THEN IF score < -400
         THEN Classification("NEGATIVE", "HIGH", Min(900, Abs(score) + 200), TRUE, "HIGH")
         ELSE IF score < -150
         THEN Classification("NEGATIVE", "MEDIUM", Min(800, Abs(score) + 150), TRUE, "MEDIUM")
         ELSE IF score > 400
         THEN Classification("POSITIVE", "HIGH", Min(900, score + 200), FALSE, "LOW")
         ELSE IF score > 150
         THEN Classification("POSITIVE", "MEDIUM", Min(800, score + 150), FALSE, "LOW")
         ELSE Classification("NEUTRAL", "LOW", 600, FALSE, "LOW")
    ELSE IF score < -100
         THEN Classification("NEGATIVE", "MEDIUM", Min(800, Abs(score) + 100), FALSE, "LOW")
         ELSE IF score > 100
         THEN Classification("POSITIVE", "MEDIUM", Min(800, score + 100), FALSE, "LOW")
         ELSE Classification("NEUTRAL", "LOW", 700, FALSE, "LOW")

\* _classify_sentiment, lines 163-250
classify_sentiment(score, context, original_text) ==
    IF HasCrisisPhrase(original_text)
    THEN Classification("CRISIS", "HIGH", 950, TRUE, "HIGH")
    ELSE IF context.is_mental_health
    THEN IF score <= -400
         THEN Classification("NEGATIVE", "HIGH", Min(900, Abs(score) + 200), TRUE, "HIGH")
         ELSE IF score <= -150
         THEN Classification("NEGATIVE", "MEDIUM", Min(800, Abs(score) + 150), TRUE, "MEDIUM")
         ELSE IF score >= 400
         THEN Classification("POSITIVE", "HIGH", Min(900, score + 200), FALSE, "LOW")
         ELSE IF score >= 150
         THEN Classification("POSITIVE", "MEDIUM", Min(800, score + 150), FALSE, "LOW")
         ELSE Classification("NEUTRAL", "LOW", 600, FALSE, "LOW")
    ELSE IF score <= -100
         THEN Classification("NEGATIVE", "MEDIUM", Min(800, Abs(score) + 100), FALSE, "LOW")
         ELSE IF score >= 100
         THEN Classification("POSITIVE", "MEDIUM", Min(800, score + 100), FALSE, "LOW")
         ELSE Classification("NEUTRAL", "LOW", 700, FALSE, "LOW")

\* _default_sentiment, lines 252-268: the record has no text and no timestamp.
default_sentiment ==
    [sentiment_label |-> "NEUTRAL", sentiment_score |-> 0, original_score |-> 0,
     confidence |-> 0, severity |-> "LOW",
     mental_health_context |-> [has_any_context |-> FALSE,
                                mental_health_score |-> 0,
                                positive_context_score |-> 0,
                                emoticon_score |-> 0],
     needs_attention |-> FALSE, risk_level |-> "LOW",
     analysis_notes |-> "Insufficient text for analysis"]

\* analyze_sentiment, lines 90-136 (cleaned_text, the library scores and the
\* timestamp of the call are left out of the result).
analyze_sentiment(text, compound_score, textblob_subjectivity, context) ==
    IF text = <<>> \/ Len(Strip(text)) < 2
    THEN default_sentiment
    ELSE LET adjusted_score ==
                 adjust_sentiment_score(compound_score, context, textblob_subjectivity)
             sentiment_result == classify_sentiment(adjusted_score, context, text)
         IN [text |-> text,
             sentiment_label |-> sentiment_result.label,
             sentiment_score |-> adjusted_score,
             original_score |-> compound_score,
             confidence |-> sentiment_result.confidence,
             severity |-> sentiment_result.severity,
             mental_health_context |-> context,
             needs_attention |-> sentiment_result.needs_attention,
             risk_level |-> sentiment_result.risk_level]

\* One call of analyzer.analyze_sentiment(message) returns.
Analyze ==
    /\ call # <<>>
    /\ returned = <<>>
    /\ returned' = <<analyze_sentiment(call[1].text, call[1].compound_score,
                                       call[1].textblob_subjectivity, call[1].context)>>
    /\ UNCHANGED <<busVars, kafkaVars, appVars, webVars, sideVars, call>>

\* No call of the analyzer is under way.
AnalyzerInit ==
    /\ call = <<>>
    /\ returned = <<>>

(***************************************************************************)
(* The calls of analyze_sentiment that are explored: a crisis phrase in    *)
(* some casing between two paddings, and texts without one.                *)
(***************************************************************************)
PadChars == {" ", "x"}

RECURSIVE PadsOfLen(_)
PadsOfLen(n) ==
    IF n = 0 THEN {<<>>}
    ELSE {<<c>> \o s : c \in PadChars, s \in PadsOfLen(n - 1)}

Pads == UNION {PadsOfLen(n) : n \in 0..MaxPadLen}

Casings == {"lower", "upper", "mixed"}

Cased(phrase, casing) ==
    [k \in 1..Len(phrase) |->
        IF casing = "upper" \/ (casing = "mixed" /\ k % 2 = 1)
        THEN UpperChar(phrase[k])
        ELSE phrase[k]]

CrisisTexts ==
    {pre \o Cased(crisis_phrases[n], casing) \o post :
        pre \in Pads, post \in Pads, n \in 1..Len(crisis_phrases), casing \in Casings}

OtherTexts ==
    { <<>>,
      <<" ">>,
      <<"a">>,
      <<" ", "a", " ">>,
      <<" ", " ">>,
      <<"a", " ">>,
      <<"\t", "a", "\n">>,
      <<"a", " ", "b">>,
      <<"o", "k">>,
      <<"i", " ", "a", "m", " ", "f", "i", "n", "e">>,
      <<"k", "i", "l", "l", " ", "m", "y", " ", "s", "e", "l", "f">>,
      <<"s", "u", "i", "c", "i", "d", "e">>,
      <<"o", "v", "e", "r", " ", "d", "o", "s", "e">> }

Texts == CrisisTexts \cup OtherTexts

CompoundScores == {-800, 0, 800}

Subjectivities == {0, 500}

Contexts ==
    {ContextBundle(negative_sum, positive_sum, emoticon_score) :
        negative_sum \in {0, 20}, positive_sum \in {0, 15}, emoticon_score \in {-1, 0, 1}}

Calls ==
    [text : Texts, compound_score : CompoundScores,
     textblob_subjectivity : Subjectivities, context : Contexts]

(***************************************************************************)
(* The ingestion entry points of src/app.py: api_send_message (REST) and   *)
(* handle_chat_message (socket). A handler is one step here: it runs its   *)
(* checks, adds its key to message_history, publishes the chat message,    *)
(* analyzes the text and publishes the sentiment record. The deliveries it *)
(* starts run later, in their threads.                                     *)
(***************************************************************************)
Usernames == {<<"u">>}

Messages == {<<>>, <<" ">>, <<"o", "k">>}

\* The JSON bodies explored carry both keys (a missing 'message' reads as '').
Submissions == [username : Usernames, message : Messages]

\* datetime.now().timestamp(): the millisecond clock with its microsecond part.
Timestamp(ms, us) == <<ToString(ms), ".", ToString(us)>>

\* f"{username}_{message}_{datetime.now().timestamp()}"
SubmissionKey(username, message, ms, us) ==
    username \o <<"_">> \o message \o <<"_">> \o Timestamp(ms, us)

\* KafkaManager.send_chat_message builds this payload (kafka_manager.py 39-45).
ChatData(username, message) ==
    [message_id |-> now, username |-> username, message |-> message,
     timestamp |-> now, platform |-> "web_chat"]

\* f"{sentiment_data.get('message_id', '')}_{ms}": analyze_sentiment sets no
\* message_id, so the id is "_" followed by the millisecond stamp.
ProcessedId(ms) == "_" \o ToString(ms)

\* The record published by send_sentiment_result: the analysis with
\* 'username' and 'processed_id' set. A key that the analysis does not carry
\* (text and timestamp of _default_sentiment) reads as '' downstream.
SentimentData(analysis, username, us) ==
    Record(ProcessedId(now),
           username,
           IF "text" \in DOMAIN analysis THEN analysis.text ELSE <<>>,
           IF "text" \in DOMAIN analysis THEN Timestamp(now, us) ELSE <<>>,
           analysis.sentiment_label,
           analysis.mental_health_context.has_any_context)

\* send_chat_message followed by analyze_sentiment and send_sentiment_result.
AfterIngest(username, message, analysis, us) ==
    AfterSend(AfterSend(Bus, chat_topic, ChatData(username, message)),
              results_topic, SentimentData(analysis, username, us))

Answer(handler, data, status, outcome, key) ==
    responses' = Append(responses,
        [handler |-> handler, username |-> data.username, message |-> data.message,
         status |-> status, outcome |-> outcome, key |-> key])

WriteBus(b) ==
    /\ topics' = b.topics
    /\ metrics' = b.metrics
    /\ threads' = b.threads
    /\ sent' = b.sent

\* not message.strip()
BlankMessage(message) ==
    Strip(message) = <<>>

\* api_send_message, app.py lines 203-246, for a request with a JSON body;
\* send_message has no failure return, so lines 240-243 are not reached.
api_send_message(data, us, compound_score, textblob_subjectivity, context) ==
    LET message_id == SubmissionKey(data.username, data.message, now, us)
        analysis == analyze_sentiment(data.message, compound_score,
                                      textblob_subjectivity, context)
    IN /\ IF BlankMessage(data.message)
          THEN /\ Answer("api_send_message", data, 400, "empty", <<>>)
               /\ UNCHANGED <<topics, metrics, threads, sent, message_history>>
          ELSE IF message_id \in message_history
          THEN /\ Answer("api_send_message", data, 400, "duplicate", message_id)
               /\ UNCHANGED <<topics, metrics, threads, sent, message_history>>
          ELSE /\ message_history' = message_history \cup {message_id}
               /\ WriteBus(AfterIngest(data.username, data.message, analysis, us))
               /\ Answer("api_send_message", data, 200, "published", message_id)
       /\ UNCHANGED <<consumers, now, subscribedAt, kafkaVars, stats,
                      sentiment_history, documents, events, last_counted,
                      analyzerVars, sideVars>>

\* handle_chat_message, app.py lines 282-306; the handler answers nothing
\* (status 0).
handle_chat_message(data, us, compound_score, textblob_subjectivity, context) ==
    LET message_id == SubmissionKey(data.username, data.message, now, us)
        analysis == analyze_sentiment(data.message, compound_score,
                                      textblob_subjectivity, context)
    IN /\ IF data.message = <<>>
          THEN /\ Answer("handle_chat_message", data, 0, "empty", <<>>)
               /\ UNCHANGED <<topics, metrics, threads, sent, message_history>>
          ELSE IF message_id \in message_history
          THEN /\ Answer("handle_chat_message", data, 0, "duplicate", message_id)
               /\ UNCHANGED <<topics, metrics, threads, sent, message_history>>
          ELSE /\ message_history' = message_history \cup {message_id}
               /\ WriteBus(AfterIngest(data.username, data.message, analysis, us))
               /\ Answer("handle_chat_message", data, 0, "published", message_id)
       /\ UNCHANGED <<consumers, now, subscribedAt, kafkaVars, stats,
                      sentiment_history, documents, events, last_counted,
                      analyzerVars, sideVars>>

\* api_recent_messages, app.py lines 169-178: the read clears message_history.
api_recent_messages ==
    /\ message_history' = {}
    /\ UNCHANGED <<analyzerVars, webVars, sideVars, busVars, kafkaVars, stats,
                   sentiment_history, documents, events, last_counted>>

(***************************************************************************)
(* Specifications of the bus.                                              *)
(*                                                                         *)
(* The bus never inspects a payload, so the publishers send pairwise       *)
(* distinct payloads (the number of the publish): every run with repeated  *)
(* payloads is the image of such a run under a renaming of payloads.       *)
(***************************************************************************)
NSubscribed == Len(consumers[chat_topic]) + Len(consumers[results_topic])

CreateTopicStep ==
    /\ \E t \in TopicNames : create_topic(t)
    /\ UNCHANGED <<kafkaVars, appVars, analyzerVars, webVars, sideVars>>

SendMessageStep ==
    /\ Len(sent) < MaxSends
    /\ \E t \in TopicNames : send_message(t, Len(sent) + 1)
    /\ UNCHANGED <<kafkaVars, appVars, analyzerVars, webVars, sideVars>>

DeliverSendStep ==
    /\ Len(sent) < MaxDeliverSends
    /\ \E t \in TopicNames : send_message(t, Len(sent) + 1)
    /\ UNCHANGED <<kafkaVars, appVars, analyzerVars, webVars, sideVars>>

SubscribeStep ==
    /\ NSubscribed < MaxSubscribes
    /\ \E t \in TopicNames, cb \in Callbacks, g \in GroupIds : subscribe(t, cb, g)
    /\ UNCHANGED <<kafkaVars, appVars, analyzerVars, webVars, sideVars>>

RunCallbackStep ==
    /\ \E i \in 1..Len(threads) : RunCallback(i)
    /\ UNCHANGED <<kafkaVars, appVars, analyzerVars, webVars, sideVars>>

\* The store under create_topic, send_message and subscribe calls in any order.
Next ==
    \/ CreateTopicStep
    \/ SendMessageStep
    \/ SubscribeStep
    \/ Tick

\* No call is in progress, the lock is free and nothing has been read.
SideInit ==
    /\ lock = [owner |-> 0, count |-> 0, grants |-> 0]
    /\ calls = <<>>
    /\ observed = <<>>

Init == BusInit /\ AppInit /\ AnalyzerInit /\ SideInit

Spec == Init /\ [][Next]_vars

\* The bus with its delivery threads running. Topics are created by the
\* first publish here; explicit creation is explored by Spec.
DeliverNext ==
    \/ DeliverSendStep
    \/ SubscribeStep
    \/ RunCallbackStep
    \/ Tick

SpecDeliver == Init /\ [][DeliverNext]_vars

\* Every started thread is scheduled.
FairSpecDeliver ==
    SpecDeliver /\ WF_vars(RunCallbackStep)

RaiseCallbackStep ==
    /\ \E i \in 1..Len(threads) : RaiseCallback(i)
    /\ UNCHANGED <<kafkaVars, appVars, analyzerVars, webVars, sideVars>>

\* The bus with callbacks that may raise.
RaiseNext ==
    \/ DeliverSendStep
    \/ SubscribeStep
    \/ RunCallbackStep
    \/ RaiseCallbackStep
    \/ Tick

SpecRaise == Init /\ [][RaiseNext]_vars

(***************************************************************************)
(* Specifications of the consumer side: sentiment records are published to *)
(* the results topic and the delivery threads run internal_callback and    *)
(* sentiment_callback, interleaved in any way. The callbacks read only the *)
(* payload of a message, never its message_id or timestamp, so the clock   *)
(* stands still here.                                                      *)
(***************************************************************************)
StartedInit == StartedBusInit /\ AppInit /\ AnalyzerInit /\ SideInit

\* The delivery threads of the results topic, one per published record.
DeliveryThreads == 1..MaxResults

\* kafka_manager.send_sentiment_result(sentiment_data)
PublishResultStep ==
    /\ Len(sent) < MaxResults
    /\ \E r \in Records : send_message(results_topic, r)
    /\ UNCHANGED <<kafkaVars, appVars, analyzerVars, webVars, sideVars>>

CallbackStep ==
    \E i \in DeliveryThreads :
        \/ ic_check(i)
        \/ ic_add(i)
        \/ ic_len(i)
        \/ ic_clear(i)
        \/ ic_append(i)
        \/ ic_trim(i)
        \/ ic_pop(i)
        \/ sc_check(i)
        \/ sc_add(i)
        \/ sc_total_load(i)
        \/ sc_total_store(i)
        \/ sc_count_load(i)
        \/ sc_count_store(i)
        \/ sc_context(i)
        \/ sc_context_store(i)
        \/ sc_crisis(i)
        \/ sc_crisis_store(i)
        \/ sc_crisis_emit(i)
        \/ sc_index(i)
        \/ sc_emit(i)
        \/ sc_mod(i)
        \/ cleanup_history(i)

ConsumeNext ==
    \/ PublishResultStep
    \/ CallbackStep

SpecConsume == StartedInit /\ [][ConsumeNext]_vars

\* The consumer side with page loads.
AppNext ==
    \/ PublishResultStep
    \/ CallbackStep
    \/ index

SpecApp == StartedInit /\ [][AppNext]_vars

(***************************************************************************)
(* Specification of the analyzer: one call of analyze_sentiment on any of  *)
(* the explored inputs.                                                    *)
(***************************************************************************)
ClassifyInit ==
    /\ BusInit
    /\ AppInit
    /\ SideInit
    /\ call \in {<<c>> : c \in Calls}
    /\ returned = <<>>

ClassifyNext == Analyze

SpecClassify == ClassifyInit /\ [][ClassifyNext]_vars

(***************************************************************************)
(* Specification of ingestion: submissions, reads of the recent messages   *)
(* and the clock. The deliveries that a submission starts stay pending.    *)
(***************************************************************************)
ApiSendStep ==
    /\ Len(responses) < MaxSubmissions
    /\ \E data \in Submissions, us \in 0..MaxMicros,
          cs \in CompoundScores, sj \in Subjectivities, cx \in Contexts :
              api_send_message(data, us, cs, sj, cx)

SocketSendStep ==
    /\ Len(responses) < MaxSubmissions
    /\ \E data \in Submissions, us \in 0..MaxMicros,
          cs \in CompoundScores, sj \in Subjectivities, cx \in Contexts :
              handle_chat_message(data, us, cs, sj, cx)

IngestNext ==
    \/ ApiSendStep
    \/ SocketSendStep
    \/ api_recent_messages
    \/ Tick

SpecIngest == StartedInit /\ [][IngestNext]_vars


(***************************************************************************)
(* The deliveries of records with pairwise different keys, one more than   *)
(* sentiment_history may hold. Each delivery thread runs internal_callback  *)
(* and the duplicate test of sentiment_callback without interruption, then  *)
(* the statement stats['total_messages'] += 1 as its read and its write,    *)
(* then the rest of sentiment_callback with cleanup_history without         *)
(* interruption. These runs are a subset of the interleavings that          *)
(* CallbackStep allows.                                                     *)
(***************************************************************************)
\* The size sentiment_history may have between two cleanups: the maximum plus
\* one period of the modulo test.
HistoryBound == MAX_HISTORY_SIZE + CleanupPeriod

MaxHistoryResults == HistoryBound + 1

HistoryThreads == 1..MaxHistoryResults

\* The k-th record published: a NEUTRAL analysis of "ok" with its own
\* processed_id and timestamp.
HistoryRecord(k) ==
    Record(ProcessedId(k), <<"u">>, <<"o", "k">>, <<ToString(k)>>, "NEUTRAL", FALSE)

PublishKeyedStep ==
    /\ Len(sent) < MaxHistoryResults
    /\ send_message(results_topic, HistoryRecord(Len(sent) + 1))
    /\ UNCHANGED <<kafkaVars, appVars, analyzerVars, webVars, sideVars>>

\* kafka_manager.py lines 72-91 and app.py lines 68-73 in one run.
hc_enter(i) ==
    /\ At(i, "started")
    /\ LET message_id == MessageIdOf(Data(i))
           added == processed_message_ids \cup {message_id}
           appended == Append(recent_messages, Data(i))
           key == generate_message_id(Data(i))
       IN IF AlreadyProcessed(message_id)
          THEN /\ Goto(i, "dropped_ic")
               /\ UNCHANGED <<kafkaVars, sentiment_history, last_counted>>
          ELSE /\ processed_message_ids' =
                      IF Cardinality(added) > ProcessedIdsCeiling THEN {} ELSE added
               /\ last_processed' = message_id
               /\ recent_messages' =
                      IF Len(appended) > max_messages THEN Tail(appended) ELSE appended
               /\ IF Duplicate(key)
                  THEN /\ Goto(i, "dropped_sc")
                       /\ UNCHANGED <<sentiment_history, last_counted>>
                  ELSE /\ sentiment_history' = sentiment_history \cup {key}
                       /\ last_counted' = key
                       /\ Goto(i, "sc_total_load")
    /\ UNCHANGED <<analyzerVars, webVars, sideVars, storeVars, stats, message_history,
                   documents, events>>

\* What cleanup_history may leave of a history set, run without interruption
\* (app.py lines 53-56 or 58-61).
CleanedUp(history) ==
    IF Cardinality(history) > MAX_HISTORY_SIZE
    THEN CleanupKeeps(history)
    ELSE {history}

\* app.py lines 77-106 in one run, after the write of total_messages: the
\* other counters, the alert, the document, the update, the modulo test and
\* cleanup_history.
hc_finish(i) ==
    /\ \E p \in {"sc_count_load", "sc_context"} : At(i, p)
    /\ LET d == Data(i)
           counted == IF d.sentiment_label \in DOMAIN stats.sentiment_counts
                      THEN [stats EXCEPT !.sentiment_counts[d.sentiment_label] = @ + 1]
                      ELSE stats
           context == IF d.mental_health_context.has_any_context
                      THEN [counted EXCEPT !.mental_health_messages = @ + 1]
                      ELSE counted
           event(name, severity) ==
               [event |-> name, thread |-> i, username |-> d.username,
                message |-> d.text, timestamp |-> d.timestamp, severity |-> severity]
       IN /\ stats' = IF d.sentiment_label = "CRISIS"
                      THEN [context EXCEPT !.crisis_alerts = @ + 1]
                      ELSE context
          /\ events' = (IF d.sentiment_label = "CRISIS"
                        THEN Append(events, event("crisis_alert", "HIGH"))
                        ELSE events) \o <<event("sentiment_update", "NONE")>>
          /\ documents' = Append(documents,
                 [username |-> d.username, message |-> d.text,
                  sentiment_label |-> d.sentiment_label,
                  mental_health_context |-> d.mental_health_context.has_any_context])
    /\ IF stats.total_messages % CleanupPeriod = 0
       THEN /\ message_history' \in CleanedUp(message_history)
            /\ sentiment_history' \in CleanedUp(sentiment_history)
       ELSE UNCHANGED <<message_history, sentiment_history>>
    /\ Goto(i, "done")
    /\ UNCHANGED <<analyzerVars, webVars, sideVars, storeVars, kafkaVars, last_counted>>

HistoryCallbackStep ==
    \E i \in HistoryThreads :
        \/ hc_enter(i)
        \/ sc_total_load(i)
        \/ sc_total_store(i)
        \/ hc_finish(i)

HistoryNext ==
    \/ PublishKeyedStep
    \/ HistoryCallbackStep

SpecHistory == StartedInit /\ [][HistoryNext]_vars


(***************************************************************************)
(* The analyzer on texts without crisis phrase, over a grid of compound    *)
(* scores that puts the adjusted score on, just below and just above each  *)
(* threshold of _classify_sentiment.                                       *)
(***************************************************************************)
\* Half-width of the grid of compound scores, in steps of 0.025.
ScoreSteps == 40

\* Compound scores from -1.0 to 1.0 in steps of 0.025, and the values next to
\* the thresholds that are reached without any adjustment.
ThresholdScores ==
    {25 * k : k \in (0 - ScoreSteps)..ScoreSteps}
        \cup {-401, -399, -151, -149, -101, -99, 99, 101, 149, 151, 399, 401}

ThresholdTexts ==
    { <<"i", " ", "a", "m", " ", "f", "i", "n", "e">>, <<"o", "k">> }

\* A context bundle with equal sums shifts the score by its emoticons only.
ThresholdContexts ==
    Contexts \cup {ContextBundle(15, 15, 0)}

ThresholdCalls ==
    [text : ThresholdTexts, compound_score : ThresholdScores,
     textblob_subjectivity : {0}, context : ThresholdContexts]

ThresholdInit ==
    /\ BusInit
    /\ AppInit
    /\ SideInit
    /\ call \in {<<c>> : c \in ThresholdCalls}
    /\ returned = <<>>

SpecThreshold == ThresholdInit /\ [][ClassifyNext]_vars


(***************************************************************************)
(* The lexical side of the analyzer (sentiment_analyzer.py, lines 12-88):  *)
(* clean_text, detect_emoticons and contains_mental_health_context.        *)
(* Weights are in tenths. An emoji is one character, written by its code   *)
(* point.                                                                  *)
(***************************************************************************)
mental_health_keywords ==
    << [keyword |-> <<"s", "u", "i", "c", "i", "d", "a", "l">>, weight |-> 20],
       [keyword |-> <<"k", "i", "l", "l", " ", "m", "y", "s", "e", "l", "f">>, weight |-> 20],
       [keyword |-> <<"e", "n", "d", " ", "i", "t", " ", "a", "l", "l">>, weight |-> 20],
       [keyword |-> <<"w", "a", "n", "t", " ", "t", "o", " ", "d", "i", "e">>, weight |-> 20],
       [keyword |-> <<"s", "e", "l", "f", " ", "h", "a", "r", "m">>, weight |-> 20],
       [keyword |-> <<"c", "u", "t", "t", "i", "n", "g">>, weight |-> 20],
       [keyword |-> <<"o", "v", "e", "r", "d", "o", "s", "e">>, weight |-> 20],
       [keyword |-> <<"d", "e", "p", "r", "e", "s", "s", "e", "d">>, weight |-> 15],
       [keyword |-> <<"d", "e", "p", "r", "e", "s", "s", "i", "o", "n">>, weight |-> 15],
       [keyword |-> <<"h", "o", "p", "e", "l", "e", "s", "s">>, weight |-> 15],
       [keyword |-> <<"d", "e", "s", "p", "e", "r", "a", "t", "e">>, weight |-> 15],
       [keyword |-> <<"o", "v", "e", "r", "w", "h", "e", "l", "m", "e", "d">>, weight |-> 15],
       [keyword |-> <<"a", "n", "x", "i", "o", "u", "s">>, weight |-> 15],
       [keyword |-> <<"a", "n", "x", "i", "e", "t", "y">>, weight |-> 15],
       [keyword |-> <<"p", "a", "n", "i", "c", " ", "a", "t", "t", "a", "c", "k">>, weight |-> 15],
       [keyword |-> <<"b", "u", "r", "n", "o", "u", "t">>, weight |-> 15],
       [keyword |-> <<"e", "x", "h", "a", "u", "s", "t", "e", "d">>, weight |-> 15],
       [keyword |-> <<"t", "r", "a", "u", "m", "a">>, weight |-> 15],
       [keyword |-> <<"p", "t", "s", "d">>, weight |-> 15],
       [keyword |-> <<"s", "t", "r", "e", "s", "s">>, weight |-> 12],
       [keyword |-> <<"s", "t", "r", "e", "s", "s", "e", "d">>, weight |-> 12],
       [keyword |-> <<"s", "a", "d">>, weight |-> 12],
       [keyword |-> <<"u", "n", "h", "a", "p", "p", "y">>, weight |-> 12],
       [keyword |-> <<"w", "o", "r", "r", "i", "e", "d">>, weight |-> 12],
       [keyword |-> <<"n", "e", "r", "v", "o", "u", "s">>, weight |-> 12],
       [keyword |-> <<"s", "c", "a", "r", "e", "d">>, weight |-> 12],
       [keyword |-> <<"a", "f", "r", "a", "i", "d">>, weight |-> 12],
       [keyword |-> <<"t", "h", "e", "r", "a", "p", "y">>, weight |-> 10],
       [keyword |-> <<"t", "h", "e", "r", "a", "p", "i", "s", "t">>, weight |-> 10],
       [keyword |-> <<"m", "e", "n", "t", "a", "l", " ", "h", "e", "a", "l", "t", "h">>, weight |-> 10],
       [keyword |-> <<"c", "o", "u", "n", "s", "e", "l", "i", "n", "g">>, weight |-> 10],
       [keyword |-> <<"p", "s", "y", "c", "h", "i", "a", "t", "r", "i", "s", "t">>, weight |-> 10],
       [keyword |-> <<"m", "e", "d", "i", "c", "a", "t", "i", "o", "n">>, weight |-> 10],
       [keyword |-> <<"b", "i", "p", "o", "l", "a", "r">>, weight |-> 10],
       [keyword |-> <<"o", "c", "d">>, weight |-> 10],
       [keyword |-> <<"a", "d", "h", "d">>, weight |-> 10],
       [keyword |-> <<"a", "u", "t", "i", "s", "m">>, weight |-> 10],
       [keyword |-> <<"e", "a", "t", "i", "n", "g", " ", "d", "i", "s", "o", "r", "d", "e", "r">>, weight |-> 10] >>

positive_mental_health_keywords ==
    << [keyword |-> <<"h", "a", "p", "p", "y">>, weight |-> 15],
       [keyword |-> <<"b", "e", "t", "t", "e", "r">>, weight |-> 15],
       [keyword |-> <<"i", "m", "p", "r", "o", "v", "i", "n", "g">>, weight |-> 15],
       [keyword |-> <<"p", "r", "o", "g", "r", "e", "s", "s">>, weight |-> 15],
       [keyword |-> <<"g", "r", "a", "t", "e", "f", "u", "l">>, weight |-> 15],
       [keyword |-> <<"t", "h", "a", "n", "k", "f", "u", "l">>, weight |-> 15],
       [keyword |-> <<"r", "e", "c", "o", "v", "e", "r", "y">>, weight |-> 15],
       [keyword |-> <<"h", "e", "a", "l", "i", "n", "g">>, weight |-> 15],
       [keyword |-> <<"w", "e", "l", "l", "n", "e", "s", "s">>, weight |-> 15],
       [keyword |-> <<"m", "e", "d", "i", "t", "a", "t", "i", "o", "n">>, weight |-> 12],
       [keyword |-> <<"m", "i", "n", "d", "f", "u", "l", "n", "e", "s", "s">>, weight |-> 12],
       [keyword |-> <<"c", "o", "p", "i", "n", "g">>, weight |-> 12],
       [keyword |-> <<"s", "t", "r", "e", "n", "g", "t", "h">>, weight |-> 12],
       [keyword |-> <<"s", "u", "p", "p", "o", "r", "t">>, weight |-> 12],
       [keyword |-> <<"h", "e", "l", "p">>, weight |-> 12],
       [keyword |-> <<"p", "r", "o", "u", "d">>, weight |-> 15],
       [keyword |-> <<"c", "o", "n", "f", "i", "d", "e", "n", "t">>, weight |-> 15],
       [keyword |-> <<"o", "p", "t", "i", "m", "i", "s", "t", "i", "c">>, weight |-> 15],
       [keyword |-> <<"h", "o", "p", "e", "f", "u", "l">>, weight |-> 15] >>

positive_emoticons ==
    << <<":", ")">>,
       <<":", "-", ")">>,
       <<":", "D">>,
       <<":", "-", "D">>,
       <<":", "]">>,
       <<":", "-", "]">>,
       <<":", " ", ")">>,
       <<"=", ")">>,
       <<"U+1F60A">>,
       <<"U+1F604">>,
       <<"U+1F603">>,
       <<"U+1F642">>,
       <<"U+1F917">> >>

\* ':(' is listed twice.
negative_emoticons ==
    << <<":", "(">>,
       <<":", "-", "(">>,
       <<":", "[">>,
       <<":", "-", "[">>,
       <<":", "(">>,
       <<"=", "(">>,
       <<"U+1F614">>,
       <<"U+1F622">>,
       <<"U+1F61E">>,
       <<"U+1F61F">>,
       <<"U+1F641">>,
       <<"U+1F625">> >>

Digits == {"0", "1", "2", "3", "4", "5", "6", "7", "8", "9"}

\* The characters \w matches among those explored.
WordChars ==
    {LowerLetters[k] : k \in 1..Len(LowerLetters)}
        \cup {UpperLetters[k] : k \in 1..Len(UpperLetters)}
        \cup Digits \cup {"_"}

\* The punctuation that [^\w\s!?.,;:()\-\'] spares.
KeptPunctuation == {"!", "?", ".", ",", ";", ":", "(", ")", "-", "'"}

\* The text from its first whitespace character on.
RECURSIVE AfterNonSpace(_)
AfterNonSpace(text) ==
    IF text = <<>> \/ Head(text) \in Whitespace
    THEN text
    ELSE AfterNonSpace(Tail(text))

\* re.sub(r'http\S+', '', text)
RECURSIVE RemoveUrls(_)
RemoveUrls(text) ==
    IF text = <<>>
    THEN <<>>
    ELSE IF /\ Len(text) >= 5
            /\ SubSeq(text, 1, 4) = <<"h", "t", "t", "p">>
            /\ text[5] \notin Whitespace
         THEN RemoveUrls(AfterNonSpace(SubSeq(text, 5, Len(text))))
         ELSE <<Head(text)>> \o RemoveUrls(Tail(text))

\* re.sub(r'\s+', ' ', text)
RECURSIVE CollapseWhitespace(_)
CollapseWhitespace(text) ==
    IF text = <<>>
    THEN <<>>
    ELSE IF Head(text) \in Whitespace
         THEN <<" ">> \o CollapseWhitespace(LStrip(text))
         ELSE <<Head(text)>> \o CollapseWhitespace(Tail(text))

\* re.sub(r'[^\w\s!?.,;:()\-\']', '', text)
RemoveSpecial(text) ==
    SelectSeq(text, LAMBDA c : c \in WordChars \cup Whitespace \cup KeptPunctuation)

\* clean_text, lines 40-48
clean_text(text) ==
    Strip(Lower(RemoveSpecial(CollapseWhitespace(RemoveUrls(text)))))

\* sum(1 for emoticon in emoticons if emoticon in text)
EmoticonCount(emoticons, text) ==
    Cardinality({k \in 1..Len(emoticons) : Contains(text, emoticons[k])})

\* detect_emoticons, lines 50-58
detect_emoticons(text) ==
    EmoticonCount(positive_emoticons, text) - EmoticonCount(negative_emoticons, text)

\* The loop `for keyword, weight in keywords.items(): if keyword in
\* text_lower: score += weight` over the first n entries.
RECURSIVE KeywordScore(_, _, _)
KeywordScore(keywords, text_lower, n) ==
    IF n = 0
    THEN 0
    ELSE KeywordScore(keywords, text_lower, n - 1)
             + (IF Contains(text_lower, keywords[n].keyword) THEN keywords[n].weight ELSE 0)

\* contains_mental_health_context, lines 60-88
contains_mental_health_context(text) ==
    LET text_lower == Lower(text)
    IN ContextBundle(
           KeywordScore(mental_health_keywords, text_lower, Len(mental_health_keywords)),
           KeywordScore(positive_mental_health_keywords, text_lower,
                        Len(positive_mental_health_keywords)),
           detect_emoticons(text))

\* Words the explored texts are made of.
ContextWords ==
    { <<>>,
      <<"S", "a", "d">>,
      <<"u", "n", "h", "a", "p", "p", "y">>,
      <<"h", "a", "p", "p", "y", "!">>,
      <<"s", "t", "r", "e", "s", "s", "e", "d">>,
      <<"H", "E", "L", "P">>,
      <<"o", "k">>,
      <<"m", "e", "n", "t", "a", "l", "\t", "h", "e", "a", "l", "t", "h">>,
      <<"h", "t", "t", "p", ":", "/", "/", "s", "a", "d">>,
      <<":", "(">>,
      <<":", "-", "(">>,
      <<":", ")">>,
      <<":", "D">>,
      <<"=", ")">>,
      <<"U+1F622">>,
      <<"#", "p", "r", "o", "u", "d">> }

\* One or two of the words, separated by a space.
ContextTexts ==
    {IF v = <<>> THEN w ELSE w \o <<" ">> \o v : w \in ContextWords, v \in ContextWords}

ContextInit ==
    /\ BusInit
    /\ AppInit
    /\ SideInit
    /\ call \in {<<[text |-> t]>> : t \in ContextTexts}
    /\ returned = <<>>

\* analyze_sentiment, lines 94 and 104: the text is cleaned and its context
\* computed.
AnalyzeContext ==
    /\ call # <<>>
    /\ returned = <<>>
    /\ returned' = <<[cleaned_text |-> clean_text(call[1].text),
                      context |-> contains_mental_health_context(clean_text(call[1].text))]>>
    /\ UNCHANGED <<busVars, kafkaVars, appVars, webVars, sideVars, call>>

ContextNext == AnalyzeContext

SpecContext == ContextInit /\ [][ContextNext]_vars


(***************************************************************************)
(* The read operations of the bus (message_bus.py, get_topic_messages and  *)
(* get_topic_info). A read takes the lock, so it sees the store between two *)
(* operations. `observed` holds what the read made in the last step         *)
(* returned; every step that changes the store forgets it.                  *)
(***************************************************************************)
\* Largest limit argument of get_topic_messages that is explored.
MaxLimit == 3

\* Python's q[start:] for a list q: a negative start counts from the end, a
\* start beyond either end is clipped to it.
SliceFrom(q, start) ==
    LET n == Len(q)
        first == IF start < 0 THEN Max(n + start, 0) ELSE Min(start, n)
    IN SubSeq(q, first + 1, n)

\* What get_topic_messages returns: messages[-limit:] of a topic that is a
\* key of self.topics, [] otherwise. -limit is 0 when limit is 0.
TopicMessages(topic_name, limit) ==
    IF topic_name \in DOMAIN topics
    THEN SliceFrom(topics[topic_name], 0 - limit)
    ELSE <<>>

\* get_topic_messages(topic_name, limit): the membership test on the
\* defaultdict inserts nothing.
get_topic_messages(topic_name, limit) ==
    /\ observed' = <<[op |-> "get_topic_messages", topic |-> topic_name,
                      limit |-> limit, result |-> TopicMessages(topic_name, limit)]>>
    /\ UNCHANGED <<busVars, kafkaVars, appVars, analyzerVars, webVars, lock, calls>>

LatestMessage_Oldest(messages) ==
    IF messages # <<>> THEN <<messages[1]>> ELSE <<>>

\* messages[-1] if messages else None; None is the empty sequence and a
\* message m is <<m>>.
LatestMessage(messages) ==
    IF messages # <<>> THEN <<messages[Len(messages)]>> ELSE <<>>

\* The entry of get_topic_info for one topic.
TopicInfo(topic_name) ==
    [message_count |-> Len(topics[topic_name]),
     consumers_count |-> Len(consumers[topic_name]),
     latest_message |-> LatestMessage(topics[topic_name])]

\* get_topic_info(): one entry per key of self.topics. Reading
\* self.consumers[topic_name] of a topic nobody subscribed to inserts an
\* empty list, which `consumers` already holds for every name.
get_topic_info ==
    /\ observed' = <<[op |-> "get_topic_info",
                      result |-> [t \in DOMAIN topics |-> TopicInfo(t)]]>>
    /\ UNCHANGED <<busVars, kafkaVars, appVars, analyzerVars, webVars, lock, calls>>

ReadCreateStep ==
    /\ \E t \in TopicNames : create_topic(t)
    /\ observed' = <<>>
    /\ UNCHANGED <<kafkaVars, appVars, analyzerVars, webVars, lock, calls>>

ReadSendStep ==
    /\ Len(sent) < MaxSends
    /\ \E t \in TopicNames : send_message(t, Len(sent) + 1)
    /\ observed' = <<>>
    /\ UNCHANGED <<kafkaVars, appVars, analyzerVars, webVars, lock, calls>>

ReadSubscribeStep ==
    /\ NSubscribed < MaxSubscribes
    /\ \E t \in TopicNames, cb \in Callbacks, g \in GroupIds : subscribe(t, cb, g)
    /\ observed' = <<>>
    /\ UNCHANGED <<kafkaVars, appVars, analyzerVars, webVars, lock, calls>>

GetTopicMessagesStep ==
    \E t \in TopicNames, limit \in 0..MaxLimit : get_topic_messages(t, limit)

\* The store under create_topic, send_message and subscribe calls in any
\* order, read between them.
ReadNext ==
    \/ ReadCreateStep
    \/ ReadSendStep
    \/ ReadSubscribeStep
    \/ GetTopicMessagesStep
    \/ get_topic_info

SpecRead == Init /\ [][ReadNext]_vars


(***************************************************************************)
(* The bus at the grain of its lock (message_bus.py, lines 32-89). Each    *)
(* create_topic, send_message and subscribe call is run by a thread, takes  *)
(* self.lock on entry and gives it back on leaving its `with` block;        *)
(* send_message takes it again inside create_topic and _notify_consumers.   *)
(* A delivery thread runs its callback outside every `with` block. The      *)
(* callback "republish" publishes what it was given to the results topic.   *)
(***************************************************************************)
\* Number of threads that call the bus from outside.
MaxCallers == 2

\* Number of bus calls that are begun, callbacks' calls included.
MaxLockCalls == 4

Callers == 1..MaxCallers

\* The thread identity of delivery thread i.
ThreadCaller(i) == MaxCallers + i

AllCallers == 1..(MaxCallers + MaxLockCalls * MaxLockCalls)

LockCallbacks == {"opaque", "republish"}

\* Mutant of CanAcquire: a plain Lock, which its owner cannot take again.
CanAcquire_NotReentrant(c) ==
    lock.owner = 0

\* RLock.acquire() by thread c returns when the lock is free or c owns it.
CanAcquire(c) ==
    lock.owner \in {0, c}

\* The lock after thread c acquired it.
Acquired(c) ==
    [owner |-> c,
     count |-> lock.count + 1,
     grants |-> IF lock.owner = 0 THEN lock.grants + 1 ELSE lock.grants]

\* The lock after its owner left one `with self.lock` block.
Released ==
    IF lock.count = 1
    THEN [lock EXCEPT !.owner = 0, !.count = 0]
    ELSE [lock EXCEPT !.count = @ - 1]

\* The calls begun so far: those that took the lock and those waiting for it.
Begun == lock.grants + Cardinality({d \in DOMAIN calls : calls[d].pc = "acquire"})

NewCall(op, topic_name, arg) ==
    [op |-> op, topic |-> topic_name, arg |-> arg, pc |-> "acquire", seq |-> 0, ticket |-> 0]

CallAt(c, pcs) == c \in DOMAIN calls /\ calls[c].pc \in pcs

CallGoto(c, pc) == [calls EXCEPT ![c].pc = pc]

CallEnded(c) == [d \in DOMAIN calls \ {c} |-> calls[d]]

\* A thread calls create_topic, send_message or subscribe.
BeginCall(c, op, topic_name, arg) ==
    /\ c \in Callers \ DOMAIN calls
    /\ Begun < MaxLockCalls
    /\ calls' = calls @@ (c :> NewCall(op, topic_name, arg))
    /\ observed' = <<>>
    /\ UNCHANGED <<busVars, lock>>

\* Delivery thread i enters its target, the callback "republish", which calls
\* send_message on the results topic with the payload it was given.
BeginCallback(i) ==
    /\ i \in 1..Len(threads)
    /\ threads[i].pc = "started"
    /\ consumers[threads[i].topic][threads[i].consumer].callback = "republish"
    /\ Begun < MaxLockCalls
    /\ threads' = [threads EXCEPT ![i].pc = "in_callback"]
    /\ calls' = calls @@ (ThreadCaller(i) :>
                    NewCall("send_message", results_topic, threads[i].message.data))
    /\ observed' = <<>>
    /\ UNCHANGED <<storeVars, lock>>

\* `with self.lock:` on entry of create_topic (line 34), send_message (line
\* 42) and subscribe (line 64).
LockAcquire(c) ==
    /\ CallAt(c, {"acquire"})
    /\ CanAcquire(c)
    /\ lock' = Acquired(c)
    /\ calls' = [calls EXCEPT ![c].pc = CASE calls[c].op = "create_topic" -> "create"
                                          [] calls[c].op = "send_message" -> "check"
                                          [] calls[c].op = "subscribe" -> "subscribe",
                              ![c].ticket = lock'.grants]
    /\ observed' = <<>>
    /\ UNCHANGED busVars

\* send_message, line 43: `if topic_name not in self.topics`.
SendCheck(c) ==
    /\ CallAt(c, {"check"})
    /\ calls' = CallGoto(c, IF calls[c].topic \notin DOMAIN topics
                            THEN "create_acquire" ELSE "append")
    /\ observed' = <<>>
    /\ UNCHANGED <<busVars, lock>>

\* `with self.lock:` of create_topic (line 34) and of _notify_consumers (line
\* 78), entered from send_message.
NestedAcquire(c) ==
    /\ CallAt(c, {"create_acquire", "notify_acquire"})
    /\ CanAcquire(c)
    /\ lock' = Acquired(c)
    /\ calls' = CallGoto(c, IF calls[c].pc = "create_acquire" THEN "create" ELSE "notify")
    /\ observed' = <<>>
    /\ UNCHANGED busVars

\* create_topic, lines 35-38, and the end of its `with` block.
LockCreate(c) ==
    /\ CallAt(c, {"create"})
    /\ topics' = TopicsAfterCreate(topics, calls[c].topic)
    /\ metrics' = MetricsAfterCreate(topics, metrics, calls[c].topic)
    /\ lock' = Released
    /\ calls' = IF calls[c].op = "create_topic" THEN CallEnded(c) ELSE CallGoto(c, "append")
    /\ observed' = <<>>
    /\ UNCHANGED <<consumers, now, threads, sent, subscribedAt>>

\* send_message, lines 46-54: message_data, the append and messages_sent.
SendAppend(c) ==
    /\ CallAt(c, {"append"})
    /\ LET message_data == [message_id |-> now, timestamp |-> now, data |-> calls[c].arg]
       IN /\ topics' = [topics EXCEPT ![calls[c].topic] = DequeAppend(@, message_data)]
          /\ sent' = Append(sent, [topic |-> calls[c].topic, message |-> message_data,
                                   returned |-> FALSE, ticket |-> calls[c].ticket,
                                   caller |-> c])
    /\ metrics' = [metrics EXCEPT !.messages_sent = @ + 1]
    /\ calls' = [calls EXCEPT ![c].pc = "notify_acquire", ![c].seq = Len(sent) + 1]
    /\ observed' = <<>>
    /\ UNCHANGED <<consumers, now, threads, subscribedAt, lock>>

\* Mutant of ConsumedIncrement: one increment per publish that has a consumer.
ConsumedIncrement_PerPublish(started) ==
    IF Len(started) > 0 THEN 1 ELSE 0

\* What _notify_consumers adds to messages_consumed: 1 after each start().
ConsumedIncrement(started) ==
    Len(started)

\* _notify_consumers, lines 79-89, and the end of its `with` block.
SendNotify(c) ==
    /\ CallAt(c, {"notify"})
    /\ LET targets == NotifyTargets(calls[c].topic)
           started == [i \in 1..Len(targets) |->
                          StartedThread(targets[i], sent[calls[c].seq].message, calls[c].seq)]
       IN /\ threads' = threads \o started
          /\ metrics' = [metrics EXCEPT !.messages_consumed = @ + ConsumedIncrement(started)]
    /\ lock' = Released
    /\ calls' = CallGoto(c, "return")
    /\ observed' = <<>>
    /\ UNCHANGED <<topics, consumers, now, sent, subscribedAt>>

\* Mutant of StartReturned: start() returns when the target has returned.
StartReturned_AfterTarget(i) ==
    threads[i].pc = "done"

\* Thread.start() has returned in the dispatcher: it returns as soon as the
\* thread is started, whatever the target does.
StartReturned(i) ==
    TRUE

\* send_message, lines 59-60: `return True` and the end of the `with` block.
\* A callback that made the call returns with it.
SendReturn(c) ==
    /\ CallAt(c, {"return"})
    /\ \A i \in 1..Len(threads) : threads[i].seq = calls[c].seq => StartReturned(i)
    /\ lock' = Released
    /\ sent' = [sent EXCEPT ![calls[c].seq].returned = TRUE]
    /\ threads' = IF c \in Callers THEN threads
                  ELSE [threads EXCEPT ![c - MaxCallers].pc = "done"]
    /\ calls' = CallEnded(c)
    /\ observed' = <<>>
    /\ UNCHANGED <<topics, consumers, metrics, now, subscribedAt>>

\* subscribe, lines 65-74, and the end of its `with` block.
LockSubscribe(c) ==
    /\ CallAt(c, {"subscribe"})
    /\ subscribe(calls[c].topic, calls[c].arg, "None")
    /\ lock' = Released
    /\ calls' = CallEnded(c)
    /\ observed' = <<>>

BeginCreateStep ==
    /\ \E c \in Callers, t \in TopicNames : BeginCall(c, "create_topic", t, 0)
    /\ UNCHANGED <<kafkaVars, appVars, analyzerVars, webVars>>

BeginSendStep ==
    /\ \E c \in Callers, t \in TopicNames : BeginCall(c, "send_message", t, Begun + 1)
    /\ UNCHANGED <<kafkaVars, appVars, analyzerVars, webVars>>

BeginSubscribeStep ==
    /\ \E c \in Callers, t \in TopicNames, cb \in LockCallbacks :
          BeginCall(c, "subscribe", t, cb)
    /\ UNCHANGED <<kafkaVars, appVars, analyzerVars, webVars>>

BeginCallbackStep ==
    /\ \E i \in 1..Len(threads) : BeginCallback(i)
    /\ UNCHANGED <<kafkaVars, appVars, analyzerVars, webVars>>

LockAcquireStep ==
    /\ \E c \in AllCallers : LockAcquire(c)
    /\ UNCHANGED <<kafkaVars, appVars, analyzerVars, webVars>>

SendCheckStep ==
    /\ \E c \in AllCallers : SendCheck(c)
    /\ UNCHANGED <<kafkaVars, appVars, analyzerVars, webVars>>

NestedAcquireStep ==
    /\ \E c \in AllCallers : NestedAcquire(c)
    /\ UNCHANGED <<kafkaVars, appVars, analyzerVars, webVars>>

LockCreateStep ==
    /\ \E c \in AllCallers : LockCreate(c)
    /\ UNCHANGED <<kafkaVars, appVars, analyzerVars, webVars>>

SendAppendStep ==
    /\ \E c \in AllCallers : SendAppend(c)
    /\ UNCHANGED <<kafkaVars, appVars, analyzerVars, webVars>>

SendNotifyStep ==
    /\ \E c \in AllCallers : SendNotify(c)
    /\ UNCHANGED <<kafkaVars, appVars, analyzerVars, webVars>>

SendReturnStep ==
    /\ \E c \in AllCallers : SendReturn(c)
    /\ UNCHANGED <<kafkaVars, appVars, analyzerVars, webVars>>

LockSubscribeStep ==
    /\ \E c \in AllCallers : LockSubscribe(c)
    /\ UNCHANGED <<kafkaVars, appVars, analyzerVars, webVars>>

\* A callback that does not touch the bus runs to its end.
OpaqueCallbackStep ==
    /\ \E i \in 1..Len(threads) : RunCallback(i)
    /\ observed' = <<>>
    /\ UNCHANGED <<kafkaVars, appVars, analyzerVars, webVars, lock, calls>>

\* A read by any thread, a callback included: it takes the lock and returns.
LockReadStep ==
    /\ CanAcquire(0)
    /\ \/ \E t \in TopicNames : get_topic_messages(t, max_messages_per_topic)
       \/ get_topic_info

\* A step of a bus call in progress.
LockProgress ==
    \/ LockAcquireStep
    \/ SendCheckStep
    \/ NestedAcquireStep
    \/ LockCreateStep
    \/ SendAppendStep
    \/ SendNotifyStep
    \/ SendReturnStep
    \/ LockSubscribeStep

LockNext ==
    \/ BeginCreateStep
    \/ BeginSendStep
    \/ BeginSubscribeStep
    \/ BeginCallbackStep
    \/ LockProgress
    \/ OpaqueCallbackStep

SpecLock == Init /\ [][LockNext]_vars

\* get_metrics(): a copy of self.metrics, taken without the lock.
get_metrics ==
    /\ observed' = <<[op |-> "get_metrics", result |-> metrics]>>
    /\ UNCHANGED <<busVars, kafkaVars, appVars, analyzerVars, webVars, lock, calls>>

\* The target of a delivery thread raises instead of returning.
LockRaiseStep ==
    /\ \E i \in 1..Len(threads) : RaiseCallback(i)
    /\ observed' = <<>>
    /\ UNCHANGED <<kafkaVars, appVars, analyzerVars, webVars, lock, calls>>

\* The threads of SpecLock with callbacks that may raise and with the metrics
\* read at any moment.
MetricsNext ==
    \/ LockNext
    \/ LockRaiseStep
    \/ get_metrics

SpecMetrics == Init /\ [][MetricsNext]_vars

\* The same threads, with reads between their steps.
LockReadNext ==
    \/ LockNext
    \/ LockReadStep

SpecLockRead == Init /\ [][LockReadNext]_vars

\* Every thread inside a bus call is scheduled; callbacks need not return.
FairSpecLock == SpecLock /\ WF_vars(LockProgress)


(***************************************************************************)
(* The ingestion handlers step by step (app.py, api_send_message and       *)
(* handle_chat_message), each request served by its own thread. The bus    *)
(* operations are single steps here: they run under the bus lock.          *)
(***************************************************************************)
\* Number of handler threads.
MaxHandlers == 2

Handlers == 1..MaxHandlers

HandlerNames == {"api_send_message", "handle_chat_message"}

\* Texts submitted: the ones of Messages and one that is long enough to be
\* classified.
SubmitMessages == Messages \cup {<<"s", "a", "d">>}

SubmitData == [username : Usernames, message : SubmitMessages]

\* Mutant of send_chat_message: nothing is published.
send_chat_message_Skipped(b, username, message) ==
    b

\* KafkaManager.send_chat_message on the bus b (kafka_manager.py 37-54).
send_chat_message(b, username, message) ==
    AfterSend(b, chat_topic, ChatData(username, message))

\* KafkaManager.send_sentiment_result on the bus b (kafka_manager.py 56-61).
send_sentiment_result(b, analysis, username, us) ==
    AfterSend(b, results_topic, SentimentData(analysis, username, us))

\* A request arrives at one of the two entry points.
SubmitBegin(c, handler, data) ==
    /\ c \in Handlers \ DOMAIN calls
    /\ Len(responses) + Cardinality(DOMAIN calls) < MaxSubmissions
    /\ calls' = calls @@ (c :> [op |-> handler, data |-> data, pc |-> "check",
                               key |-> <<>>, analysis |-> <<>>])
    /\ UNCHANGED <<busVars, kafkaVars, appVars, analyzerVars, webVars, lock, observed>>

\* The test of the text (app.py 214 or 289), the key, its lookup and its
\* insertion (218-222, 291-295).
SubmitCheck(c, us) ==
    /\ CallAt(c, {"check"})
    /\ LET k == calls[c]
           message_id == SubmissionKey(k.data.username, k.data.message, now, us)
           blank == IF k.op = "api_send_message"
                    THEN BlankMessage(k.data.message)
                    ELSE k.data.message = <<>>
           status == IF k.op = "api_send_message" THEN 400 ELSE 0
       IN IF blank
          THEN /\ Answer(k.op, k.data, status, "empty", <<>>)
               /\ calls' = CallEnded(c)
               /\ UNCHANGED message_history
          ELSE IF message_id \in message_history
          THEN /\ Answer(k.op, k.data, status, "duplicate", message_id)
               /\ calls' = CallEnded(c)
               /\ UNCHANGED message_history
          ELSE /\ message_history' = message_history \cup {message_id}
               /\ calls' = [calls EXCEPT ![c].pc = "send_chat", ![c].key = message_id]
               /\ UNCHANGED responses
    /\ UNCHANGED <<busVars, kafkaVars, stats, sentiment_history, documents, events,
                   last_counted, analyzerVars, lock, observed>>

\* kafka_manager.send_chat_message(username, message) (app.py 225 or 298); it
\* returns True.
SubmitSendChat(c) ==
    /\ CallAt(c, {"send_chat"})
    /\ WriteBus(send_chat_message(Bus, calls[c].data.username, calls[c].data.message))
    /\ calls' = CallGoto(c, "analyze")
    /\ UNCHANGED <<consumers, now, subscribedAt, kafkaVars, appVars, analyzerVars,
                   webVars, lock, observed>>

\* analyzer.analyze_sentiment(message) (app.py 229-230 or 301-302), for a
\* text without keywords and a subjectivity of 0.
SubmitAnalyze(c, compound_score) ==
    /\ CallAt(c, {"analyze"})
    /\ calls' = [calls EXCEPT
           ![c].pc = "send_result",
           ![c].analysis = <<analyze_sentiment(calls[c].data.message, compound_score,
                                               0, ContextBundle(0, 0, 0))>>]
    /\ UNCHANGED <<busVars, kafkaVars, appVars, analyzerVars, webVars, lock, observed>>

\* kafka_manager.send_sentiment_result(sentiment_data) and the answer
\* (app.py 233-239 or 303).
SubmitSendResult(c, us) ==
    /\ CallAt(c, {"send_result"})
    /\ WriteBus(send_sentiment_result(Bus, calls[c].analysis[1],
                                      calls[c].data.username, us))
    /\ Answer(calls[c].op, calls[c].data,
              IF calls[c].op = "api_send_message" THEN 200 ELSE 0,
              "published", calls[c].key)
    /\ calls' = CallEnded(c)
    /\ UNCHANGED <<consumers, now, subscribedAt, kafkaVars, appVars, analyzerVars,
                   lock, observed>>

SubmitBeginStep ==
    \E c \in Handlers, h \in HandlerNames, data \in SubmitData : SubmitBegin(c, h, data)

SubmitCheckStep ==
    \E c \in Handlers, us \in 0..MaxMicros : SubmitCheck(c, us)

SubmitSendChatStep ==
    \E c \in Handlers : SubmitSendChat(c)

SubmitAnalyzeStep ==
    \E c \in Handlers, cs \in CompoundScores : SubmitAnalyze(c, cs)

SubmitSendResultStep ==
    \E c \in Handlers, us \in 0..MaxMicros : SubmitSendResult(c, us)

SubmitNext ==
    \/ SubmitBeginStep
    \/ SubmitCheckStep
    \/ SubmitSendChatStep
    \/ SubmitAnalyzeStep
    \/ SubmitSendResultStep
    \/ Tick

SpecSubmit == StartedInit /\ [][SubmitNext]_vars

(***************************************************************************)
(* KafkaManager.get_recent_messages (kafka_manager.py, lines 106-122) and  *)
(* the list it reads. internal_callback runs step by step in concurrent    *)
(* delivery threads; the callback it was started with is any callable and  *)
(* touches nothing of KafkaManager.                                        *)
(***************************************************************************)
MaxRecentResults == 3

RecentThreads == 1..MaxRecentResults

\* The characters of a timestamp, in code point order.
CodePoints == <<"-", ".", "0", "1", "2", "3", "4", "5", "6", "7", "8", "9", ":", "T">>

CodePoint(c) == CHOOSE k \in 1..Len(CodePoints) : CodePoints[k] = c

\* a < b on strings: by code point at the first difference, a proper prefix
\* first.
StrLess(a, b) ==
    \E k \in 1..(Min(Len(a), Len(b)) + 1) :
        /\ SubSeq(a, 1, k - 1) = SubSeq(b, 1, k - 1)
        /\ k <= Len(b)
        /\ k > Len(a) \/ CodePoint(a[k]) < CodePoint(b[k])

\* Mutant of UniqueMessages: every stored record is kept.
UniqueMessages_All(messages) ==
    messages

\* Lines 109-113: the values of unique_messages, in insertion order: the first
\* record of each id.
RECURSIVE UniqueMessages(_)
UniqueMessages(messages) ==
    IF messages = <<>>
    THEN <<>>
    ELSE LET front == UniqueMessages(SubSeq(messages, 1, Len(messages) - 1))
             msg == messages[Len(messages)]
         IN IF \E k \in 1..Len(front) : MessageIdOf(front[k]) = MessageIdOf(msg)
            THEN front
            ELSE Append(front, msg)

\* sorted(..., key=lambda x: x.get('timestamp', ''), reverse=True): the sort
\* is stable, records of equal timestamps keep their order.
RECURSIVE SortedNewestFirst(_)
SortedNewestFirst(messages) ==
    IF messages = <<>>
    THEN <<>>
    ELSE LET front == SortedNewestFirst(SubSeq(messages, 1, Len(messages) - 1))
             msg == messages[Len(messages)]
             n == Cardinality({k \in 1..Len(front) :
                                  ~StrLess(front[k].timestamp, msg.timestamp)})
         IN SubSeq(front, 1, n) \o <<msg>> \o SubSeq(front, n + 1, Len(front))

\* q[:limit]
SliceTo(q, limit) ==
    IF limit >= 0
    THEN SubSeq(q, 1, Min(limit, Len(q)))
    ELSE SubSeq(q, 1, Max(0, Len(q) + limit))

\* get_recent_messages, lines 106-122
get_recent_messages(limit) ==
    /\ observed' = <<[op |-> "get_recent_messages", limit |-> limit,
                      result |-> SliceTo(SortedNewestFirst(UniqueMessages(recent_messages)),
                                         limit)]>>
    /\ UNCHANGED <<busVars, kafkaVars, appVars, analyzerVars, webVars, lock, calls>>

\* Two records published within one millisecond (one processed_id, two
\* timestamps), a later record and a record of _default_sentiment, which has
\* no timestamp.
RecentRecords ==
    { Record("_1", <<"u">>, <<"o", "k">>, <<"1">>, "NEUTRAL", FALSE),
      Record("_1", <<"u">>, <<"s", "a", "d">>, <<"1", ".", "5">>, "NEGATIVE", TRUE),
      Record("_2", <<"u">>, <<"o", "k">>, <<"2">>, "NEUTRAL", FALSE),
      Record("_3", <<"u">>, <<>>, <<>>, "NEUTRAL", FALSE) }

PublishRecentStep ==
    /\ observed = <<>>
    /\ Len(sent) < MaxRecentResults
    /\ \E r \in RecentRecords : send_message(results_topic, r)
    /\ UNCHANGED <<kafkaVars, appVars, analyzerVars, webVars, sideVars>>

\* kafka_manager.py lines 90-91: message_callback(data), any callable.
message_callback(i) ==
    /\ At(i, "sc_check")
    /\ Goto(i, "done")
    /\ UNCHANGED <<analyzerVars, webVars, sideVars, storeVars, kafkaVars, appVars>>

InternalCallbackStep ==
    /\ observed = <<>>
    /\ \E i \in RecentThreads :
           \/ ic_check(i)
           \/ ic_add(i)
           \/ ic_len(i)
           \/ ic_clear(i)
           \/ ic_append(i)
           \/ ic_trim(i)
           \/ ic_pop(i)
           \/ message_callback(i)

GetRecentMessagesStep ==
    /\ observed = <<>>
    /\ \E limit \in 0..MaxLimit : get_recent_messages(limit)

\* The caller of get_recent_messages takes the list returned.
RecentReturnStep ==
    /\ observed # <<>>
    /\ observed' = <<>>
    /\ UNCHANGED <<busVars, kafkaVars, appVars, analyzerVars, webVars, lock, calls>>

RecentNext ==
    \/ PublishRecentStep
    \/ InternalCallbackStep
    \/ GetRecentMessagesStep
    \/ RecentReturnStep

SpecRecent == StartedInit /\ [][RecentNext]_vars


(***************************************************************************)
(* Submissions with their deliveries: the ingestion handlers publish, the  *)
(* clock advances, and each published result is delivered to               *)
(* internal_callback and sentiment_callback in its own thread.             *)
(***************************************************************************)
\* The delivery threads of the results topic, one per accepted submission.
SubmissionThreads == 1..MaxSubmissions

DeliverSubmissionStep ==
    \E i \in SubmissionThreads :
        \/ hc_enter(i)
        \/ sc_total_load(i)
        \/ sc_total_store(i)
        \/ hc_finish(i)

EndToEndNext ==
    \/ ApiSendStep
    \/ SocketSendStep
    \/ DeliverSubmissionStep
    \/ Tick

SpecEndToEnd == StartedInit /\ [][EndToEndNext]_vars


(***************************************************************************)
(* get_current_stats (app.py, lines 114-139). A percentage that the code   *)
(* computes as (count / total) * 100 is the pair of its dividend and its   *)
(* divisor; the 0 of the else branch is the number.                        *)
(***************************************************************************)
Percent(count, total) == [dividend |-> count * 100, divisor |-> total]

PercentKeys ==
    {"positive_percent", "negative_percent", "neutral_percent", "crisis_percent",
     "mental_health_percent"}

get_current_stats ==
    LET total == stats.total_messages
    IN IF total > 0
       THEN [positive_percent |-> Percent(stats.sentiment_counts["POSITIVE"], total),
             negative_percent |-> Percent(stats.sentiment_counts["NEGATIVE"], total),
             neutral_percent |-> Percent(stats.sentiment_counts["NEUTRAL"], total),
             crisis_percent |-> Percent(stats.sentiment_counts["CRISIS"], total),
             mental_health_percent |-> Percent(stats.mental_health_messages, total)]
       ELSE [k \in PercentKeys |-> 0]


(***************************************************************************)
(* Properties of the bus.                                                  *)
(***************************************************************************)
\* The messages published to topic t, in publish order.
Published(t) ==
    LET onT == SelectSeq(sent, LAMBDA s : s.topic = t)
    IN [k \in 1..Len(onT) |-> onT[k].message]

\* The last n items of sequence q.
LastN(q, n) == SubSeq(q, Len(q) - n + 1, Len(q))

\* C1: after N > C send_message calls on a topic of capacity C (created by
\* create_topic or by the first publish), the topic stores exactly C messages,
\* the C most recently published ones in publish order.
C1_KeepsMostRecent ==
    \A t \in TopicNames :
        Len(Published(t)) > max_messages_per_topic =>
            /\ t \in DOMAIN topics
            /\ Len(topics[t]) = max_messages_per_topic
            /\ topics[t] = LastN(Published(t), max_messages_per_topic)

C1_Witness ==
    \E t \in TopicNames :
        /\ Len(Published(t)) > max_messages_per_topic
        /\ metrics.topics_created = 1

\* C2 (state part): no topic ever stores more than max_messages_per_topic messages.
C2_Bounded ==
    \A t \in DOMAIN topics : Len(topics[t]) <= max_messages_per_topic

\* C2 (step part): a publish to a full topic removes the oldest stored message
\* and no other; the rest keep their order and the new message comes last.
C2_EvictsOldest ==
    \A t \in DOMAIN topics :
        (Len(sent') = Len(sent) + 1 /\ sent'[Len(sent')].topic = t
            /\ Len(topics[t]) = max_messages_per_topic) =>
                topics'[t] = Tail(topics[t]) \o <<sent'[Len(sent')].message>>

\* C2: in every reachable state every topic holds at most
\* max_messages_per_topic messages, and every publish to a full topic removes
\* exactly the oldest stored message.
C2_BoundedAndEvictsOldest ==
    []C2_Bounded /\ [][C2_EvictsOldest]_vars

C2_Witness ==
    \E t \in DOMAIN topics :
        /\ Len(Published(t)) > max_messages_per_topic
        /\ Len(consumers[t]) > 0
        /\ topics[t][1] = Published(t)[Len(Published(t)) - max_messages_per_topic + 1]

\* The delivery threads started for consumer <<t, c>> with the n-th publish.
ThreadsFor(t, c, n) ==
    {i \in 1..Len(threads) :
        /\ threads[i].topic = t
        /\ threads[i].consumer = c
        /\ threads[i].seq = n}

\* C7 (state part): for every publish and every consumer that was registered
\* on the published topic at that moment, exactly one delivery thread was
\* started, and it carries that message.
C7_OneThreadPerConsumer ==
    \A n \in 1..Len(sent) :
        \A c \in 1..Len(consumers[sent[n].topic]) :
            subscribedAt[<<sent[n].topic, c>>] < n =>
                /\ Cardinality(ThreadsFor(sent[n].topic, c, n)) = 1
                /\ \A i \in ThreadsFor(sent[n].topic, c, n) :
                       threads[i].message = sent[n].message

\* C7 (step part): a thread whose callback has run never runs it again.
C7_RunsOnce ==
    \A i \in 1..Len(threads) :
        threads[i].pc = "done" => threads'[i] = threads[i]

\* C7 (progress part): every started delivery thread has run its callback.
C7_AllInvoked ==
    \A i \in 1..Len(threads) : threads[i].pc = "done"

\* C7: every send_message on a topic starts exactly one delivery for each
\* consumer registered on it at that moment, whatever the group ids; each
\* delivery invokes the callback once, and does so eventually when started
\* threads are scheduled.
C7_EveryConsumerInvokedOnce ==
    /\ []C7_OneThreadPerConsumer
    /\ [][C7_RunsOnce]_vars
    /\ []<>C7_AllInvoked

C7_Witness ==
    \E t \in TopicNames :
        /\ Len(consumers[t]) = 2
        /\ consumers[t][1].group_id = consumers[t][2].group_id
        /\ \E n \in 1..Len(sent) :
               /\ sent[n].topic = t
               /\ \A c \in {1, 2} :
                      \E i \in ThreadsFor(t, c, n) : threads[i].pc = "done"

\* C8: a delivery thread only ever carries a message that was published to
\* the topic its consumer subscribed to, by a publish that completed after
\* the consumer's subscribe call: nothing retained is replayed.
C8_NoBackfillNoCrossTopic ==
    \A i \in 1..Len(threads) :
        /\ threads[i].seq \in 1..Len(sent)
        /\ sent[threads[i].seq].message = threads[i].message
        /\ sent[threads[i].seq].topic = threads[i].topic
        /\ subscribedAt[<<threads[i].topic, threads[i].consumer>>] < threads[i].seq

C8_Witness ==
    \E i \in 1..Len(threads) :
        /\ threads[i].pc = "done"
        /\ subscribedAt[<<threads[i].topic, threads[i].consumer>>] > 0
        /\ sent[1].topic = threads[i].topic
        /\ Len(topics[threads[i].topic]) = 2
        /\ \E t \in TopicNames : t # threads[i].topic /\ Len(consumers[t]) > 0


(***************************************************************************)
(* Properties of the consumer side.                                        *)
(***************************************************************************)
Terminal == {"done", "dropped_ic", "dropped_sc"}

\* No delivery is in progress.
Quiescent == \A i \in 1..Len(threads) : threads[i].pc \in Terminal

KeyOf(i) == generate_message_id(Data(i))

SumOfCounts ==
    stats.sentiment_counts["POSITIVE"] + stats.sentiment_counts["NEGATIVE"]
        + stats.sentiment_counts["NEUTRAL"] + stats.sentiment_counts["CRISIS"]

EventsOf(kind) == SelectSeq(events, LAMBDA e : e.event = kind)

\* C3: when every record delivered so far carries one and the same
\* (username, text, timestamp), total_messages and the counter of the
\* record's label have gone up by at most one in total, under every
\* interleaving of the delivery threads.
C3_SameKeyCountedOnce ==
    (/\ Len(threads) >= 2
     /\ \A i, j \in 1..Len(threads) : KeyOf(i) = KeyOf(j))
    => /\ stats.total_messages <= 1
       /\ stats.sentiment_counts[Data(1).sentiment_label] <= 1

\* C4: once all callbacks have finished on N records with pairwise distinct
\* dedup keys (and pairwise distinct processed ids), total_messages is N and
\* the per-label counts sum to N.
C4_NoLostIncrement ==
    (/\ Quiescent
     /\ \A i, j \in 1..Len(threads) :
            i # j => /\ KeyOf(i) # KeyOf(j)
                     /\ MessageIdOf(Data(i)) # MessageIdOf(Data(j)))
    => /\ stats.total_messages = Len(threads)
       /\ SumOfCounts = Len(threads)

\* C6: whenever no delivery is in progress, the number of crisis_alert events
\* emitted equals the crisis_alerts counter.
C6_AlertsMatchCounter ==
    Quiescent => Len(EventsOf("crisis_alert")) = stats.crisis_alerts

\* A thread that was dropped at a membership check has emitted nothing.
C9_DroppedEmitsNothing ==
    \A i \in 1..Len(threads) :
        threads[i].pc \in {"dropped_ic", "dropped_sc"} =>
            \A k \in 1..Len(events) : events[k].thread # i

\* The step of thread i that makes the membership check of sentiment_callback
\* (that of internal_callback) with its key in the seen set ends the callback
\* and changes no counter, stores nothing and emits nothing.
C9_CheckOfSeenKeyReturns ==
    \A i \in 1..Len(threads) :
        (/\ threads'[i] # threads[i]
         /\ \/ threads[i].pc = "sc_check" /\ KeyOf(i) \in sentiment_history
            \/ threads[i].pc = "started" /\ MessageIdOf(Data(i)) \in processed_message_ids)
        => /\ threads'[i].pc = IF threads[i].pc = "sc_check"
                               THEN "dropped_sc" ELSE "dropped_ic"
           /\ UNCHANGED <<stats, documents, events, recent_messages,
                          sentiment_history, processed_message_ids>>

\* A thread that was dropped takes no further step.
C9_DroppedIsFinal ==
    \A i \in 1..Len(threads) :
        threads[i].pc \in {"dropped_ic", "dropped_sc"} => threads'[i] = threads[i]

\* C9: a delivery whose dedup key is in the seen set at the membership check
\* returns there: no statistics counter changes, the record is not stored and
\* no sentiment_update or crisis_alert event is emitted, in sentiment_callback
\* and in internal_callback alike.
C9_DuplicateDropped ==
    /\ []C9_DroppedEmitsNothing
    /\ [][C9_CheckOfSeenKeyReturns /\ C9_DroppedIsFinal]_vars

\* A redelivered record was dropped by sentiment_callback after the first
\* delivery was counted, stored and forwarded.
C9_Witness ==
    /\ Quiescent
    /\ \E i, j \in 1..Len(threads) :
          /\ threads[i].pc = "dropped_sc"
          /\ threads[j].pc = "done"
          /\ KeyOf(i) = KeyOf(j)
    /\ stats.total_messages = 1
    /\ Len(documents) = 1
    /\ Len(EventsOf("sentiment_update")) = 1

\* C10: a step that removes keys from processed_message_ids keeps the id
\* recorded last, and a step that removes keys from sentiment_history keeps
\* the key recorded last.
C10_RecentKeysKept ==
    [][/\ ~(processed_message_ids \subseteq processed_message_ids') =>
              last_processed \in processed_message_ids'
       /\ ~(sentiment_history \subseteq sentiment_history') =>
              last_counted \in sentiment_history']_vars

(***************************************************************************)
(* Properties of the analyzer.                                             *)
(***************************************************************************)
\* Characters a and b are the same letter in either case, or the same
\* character.
SameIgnoringCase(a, b) ==
    \/ a = b
    \/ \E k \in 1..Len(LowerLetters) :
           {a, b} = {LowerLetters[k], UpperLetters[k]}

\* The text has the phrase as a substring at some position, case aside.
ContainsIgnoringCase(text, phrase) ==
    \E p \in 0..(Len(text) - Len(phrase)) :
        \A k \in 1..Len(phrase) : SameIgnoringCase(text[p + k], phrase[k])

HasAnyCrisisPhrase(text) ==
    \E n \in 1..Len(crisis_phrases) : ContainsIgnoringCase(text, crisis_phrases[n])

\* C5: for every text that contains a crisis phrase as a substring, in any
\* casing and at any position, analyze_sentiment returns label CRISIS with
\* severity HIGH, confidence 0.95, needs_attention true and risk_level HIGH,
\* whatever the scores and the context bundle of the call are.
C5_CrisisPhraseWins ==
    (returned # <<>> /\ HasAnyCrisisPhrase(call[1].text))
    => /\ returned[1].sentiment_label = "CRISIS"
       /\ returned[1].severity = "HIGH"
       /\ returned[1].confidence = 950
       /\ returned[1].needs_attention
       /\ returned[1].risk_level = "HIGH"

\* A call returned CRISIS for a text with the phrase in mixed case after a
\* padding, a strongly positive compound score and a positive context.
C5_Witness ==
    /\ returned # <<>>
    /\ returned[1].sentiment_label = "CRISIS"
    /\ returned[1].confidence = 950
    /\ returned[1].sentiment_score >= 400
    /\ call[1].context.positive_context_score > call[1].context.mental_health_score
    /\ HasAnyCrisisPhrase(call[1].text)
    /\ ~HasCrisisPhrase_CaseSensitive(call[1].text)
    /\ Head(call[1].text) = "x"


(***************************************************************************)
(* Properties of ingestion.                                                *)
(***************************************************************************)
\* The step is a handler answering a submission.
Answers == Len(responses') = Len(responses) + 1

Answered == responses'[Len(responses')]

\* C11: a submission whose text is empty or only whitespace is rejected at
\* both entry points: the handler publishes nothing to either topic, starts no
\* delivery, adds no key to message_history and leaves the statistics as
\* they are.
C11_BlankRejected ==
    [][(Answers /\ Strip(Answered.message) = <<>>)
       => /\ Answered.outcome = "empty"
          /\ UNCHANGED <<sent, topics, threads, message_history, stats>>]_vars

\* C12: a resubmission of the same (username, text) while the key of an
\* earlier accepted submission of it is still in message_history is rejected
\* as a duplicate: nothing is published to either topic and no sentiment
\* record is produced.
C12_ResubmissionRejected ==
    [][(/\ Answers
        /\ \E k \in 1..Len(responses) :
              /\ responses[k].outcome = "published"
              /\ responses[k].username = Answered.username
              /\ responses[k].message = Answered.message
              /\ responses[k].key \in message_history)
       => /\ Answered.outcome = "duplicate"
          /\ UNCHANGED <<sent, topics, threads>>]_vars


(***************************************************************************)
(* Further properties of the bus.                                          *)
(***************************************************************************)
\* C13: within a topic the stored messages carry strictly increasing
\* message_ids in publish order, also when two publishes fall into the same
\* millisecond.
C13_IdsStrictlyIncreasing ==
    \A t \in DOMAIN topics :
        \A i, j \in 1..Len(topics[t]) :
            i < j => topics[t][i].message_id < topics[t][j].message_id


\* C14: an exception raised by a consumer callback is caught (and logged) by
\* the dispatcher: no delivery ends with the exception uncaught.
C14_CallbackErrorsCaught ==
    \A i \in 1..Len(threads) : threads[i].pc # "uncaught"


\* A publish is possible whatever the delivery threads are doing.
C15_PublishEnabled ==
    Len(sent) < MaxDeliverSends => ENABLED DeliverSendStep

\* A send_message step returns True, leaves every earlier delivery where it
\* was and leaves each delivery it started at its start.
C15_StartsAndReturns ==
    Len(sent') = Len(sent) + 1 =>
        /\ sent'[Len(sent')].returned = TRUE
        /\ Len(threads') = Len(threads) + Len(consumers[sent'[Len(sent')].topic])
        /\ SubSeq(threads', 1, Len(threads)) = threads
        /\ \A i \in (Len(threads) + 1)..Len(threads') : threads'[i].pc = "started"

\* C15: send_message returns after appending the message and starting the
\* delivery threads, without waiting for any callback: it completes while
\* callbacks have not returned, and returns True whatever became of them.
C15_PublishDoesNotWait ==
    /\ []C15_PublishEnabled
    /\ [][C15_StartsAndReturns]_vars

\* A publish returned while the callback of an earlier publish had not
\* returned and another had raised.
C15_Witness ==
    \E i, j \in 1..Len(threads) :
        /\ threads[i].pc = "started"
        /\ threads[j].pc = "uncaught"
        /\ threads[i].seq < Len(sent)
        /\ threads[j].seq < Len(sent)
        /\ sent[Len(sent)].returned = TRUE


\* The send_message call that a publish step has added to the history.
LastSent == sent'[Len(sent')]

\* A publish to a name that is not a topic creates the topic, counts it once,
\* stores the message there and returns True; a publish to an existing topic
\* counts no topic, stores the message at the end and returns True.
C16_PublishStep ==
    Len(sent') = Len(sent) + 1 =>
        LET t == LastSent.topic
        IN /\ LastSent.returned = TRUE
           /\ t \in DOMAIN topics'
           /\ topics'[t][Len(topics'[t])] = LastSent.message
           /\ metrics'.messages_sent = metrics.messages_sent + 1
           /\ IF t \in DOMAIN topics
              THEN metrics'.topics_created = metrics.topics_created
              ELSE /\ metrics'.topics_created = metrics.topics_created + 1
                   /\ topics'[t] = <<LastSent.message>>
                   /\ DOMAIN topics' = DOMAIN topics \cup {t}

\* C16: send_message to a topic name that was never created creates the topic,
\* counted exactly once in topics_created, stores the message and returns
\* True; no send_message call returns anything else.
C16_LazyCreation ==
    /\ [](\A k \in 1..Len(sent) : sent[k].returned = TRUE)
    /\ [][C16_PublishStep]_vars

\* Two publishes went to one topic that was never created explicitly.
C16_Witness ==
    /\ Len(sent) = 2
    /\ sent[1].topic = sent[2].topic
    /\ metrics.topics_created = 1
    /\ Len(topics[sent[1].topic]) = 2


\* topics_created equals the number of existing topics.
C17_CountsTopics ==
    metrics.topics_created = Cardinality(DOMAIN topics)

\* A step that is no publish, no subscribe and no clock tick is a create_topic
\* call: it keeps every existing topic with its stored messages, all
\* consumers and the message counters; for an existing name it changes
\* nothing at all, and for a new name it counts one topic.
C17_CreateStep ==
    (Len(sent') = Len(sent) /\ NSubscribed' = NSubscribed /\ now' = now) =>
        /\ \A t \in DOMAIN topics : t \in DOMAIN topics' /\ topics'[t] = topics[t]
        /\ consumers' = consumers
        /\ metrics'.messages_sent = metrics.messages_sent
        /\ metrics'.messages_consumed = metrics.messages_consumed
        /\ IF DOMAIN topics' = DOMAIN topics
           THEN metrics' = metrics
           ELSE /\ metrics'.topics_created = metrics.topics_created + 1
                /\ Cardinality(DOMAIN topics') = Cardinality(DOMAIN topics) + 1

\* C17: create_topic is idempotent: for an existing name it leaves the stored
\* messages, the consumers and all metrics unchanged; topics_created counts
\* the first creation of each name only, explicit or lazy, so it always
\* equals the number of existing topics.
C17_CreateIdempotent ==
    /\ []C17_CountsTopics
    /\ [][C17_CreateStep]_vars

\* One topic was created explicitly and holds nothing, the other holds
\* messages, and both are counted once.
C17_Witness ==
    /\ DOMAIN topics = TopicNames
    /\ Published(chat_topic) = <<>>
    /\ Len(topics[results_topic]) = max_messages_per_topic
    /\ Len(consumers[results_topic]) >= 1
    /\ metrics.topics_created = 2


\* The number of characters of the text that are not whitespace.
NonWhitespace(text) ==
    Cardinality({k \in 1..Len(text) : text[k] \notin Whitespace})

\* C18: on a text with fewer than 2 non-whitespace characters (the empty text
\* included) analyze_sentiment returns the fixed insufficient-text record:
\* label NEUTRAL, score 0, confidence 0, all context scores 0, has_any_context
\* false and needs_attention false, whatever the scorer and the classifier
\* would have made of the inputs of the call.
C18_ShortTextDefault ==
    (returned # <<>> /\ NonWhitespace(call[1].text) < 2)
    => /\ returned[1].sentiment_label = "NEUTRAL"
       /\ returned[1].sentiment_score = 0
       /\ returned[1].original_score = 0
       /\ returned[1].confidence = 0
       /\ returned[1].severity = "LOW"
       /\ returned[1].mental_health_context.mental_health_score = 0
       /\ returned[1].mental_health_context.positive_context_score = 0
       /\ returned[1].mental_health_context.emoticon_score = 0
       /\ ~returned[1].mental_health_context.has_any_context
       /\ ~returned[1].needs_attention
       /\ returned[1].risk_level = "LOW"
       /\ "text" \notin DOMAIN returned[1]

\* A call on a text of one letter followed by a blank returned the fixed
\* record although its compound score and its context were strongly positive.
C18_Witness ==
    /\ returned # <<>>
    /\ call[1].text = <<"a", " ">>
    /\ call[1].compound_score = 800
    /\ call[1].context.positive_context_score > 0
    /\ returned[1].sentiment_score = 0
    /\ returned[1].confidence = 0

\* C19: the adjusted score that analyze_sentiment stores as sentiment_score
\* lies within [-1.0, 1.0] for every compound score, subjectivity and context
\* bundle of the call, as does the value of _adjust_sentiment_score on them.
C19_ScoreInRange ==
    /\ returned # <<>> =>
          /\ returned[1].sentiment_score >= -1000
          /\ returned[1].sentiment_score <= 1000
    /\ call # <<>> =>
          LET adjusted == adjust_sentiment_score(call[1].compound_score,
                              call[1].context, call[1].textblob_subjectivity)
          IN adjusted >= -1000 /\ adjusted <= 1000

\* A call returned the score 1.0 where the compound score with the boost of
\* the positive context alone goes beyond it.
C19_Witness ==
    /\ returned # <<>>
    /\ "text" \in DOMAIN returned[1]
    /\ returned[1].sentiment_score = 1000
    /\ call[1].context.positive_context_score > call[1].context.mental_health_score
    /\ call[1].compound_score
           + 20 * Min(call[1].context.positive_context_score, 30) > 1000

\* C20: for every result that is not CRISIS, needs_attention is true exactly
\* when the label is NEGATIVE with a mental-health context; risk_level is the
\* severity (HIGH or MEDIUM) for those results and LOW for all others; with no
\* context signal needs_attention is false and risk_level LOW for every score.
C20_AttentionAndRisk ==
    (returned # <<>> /\ returned[1].sentiment_label # "CRISIS")
    => LET r == returned[1]
           in_context == r.mental_health_context.has_any_context
       IN /\ r.needs_attention <=> (r.sentiment_label = "NEGATIVE" /\ in_context)
          /\ r.needs_attention =>
                 r.severity \in {"HIGH", "MEDIUM"} /\ r.risk_level = r.severity
          /\ ~r.needs_attention => r.risk_level = "LOW"
          /\ ~in_context => ~r.needs_attention /\ r.risk_level = "LOW"

\* A call without context signal returned NEGATIVE for a strongly negative
\* score, with needs_attention false and risk_level LOW.
C20_Witness ==
    /\ returned # <<>>
    /\ "text" \in DOMAIN returned[1]
    /\ ~returned[1].mental_health_context.has_any_context
    /\ returned[1].sentiment_label = "NEGATIVE"
    /\ returned[1].sentiment_score <= -400
    /\ ~returned[1].needs_attention
    /\ returned[1].risk_level = "LOW"


(***************************************************************************)
(* Properties of the read operations.                                      *)
(***************************************************************************)
\* The messages of topic t as stored, none for a name that is no topic.
Stored(t) == IF t \in DOMAIN topics THEN topics[t] ELSE <<>>

\* C21: get_topic_messages(topic, limit) returns at most limit messages, the
\* limit most recently appended ones of the topic in append order (all of them
\* when fewer are stored), for every limit >= 0 including 0, and the empty
\* list for a name that is no topic.
C21_ReturnsLastLimit ==
    \A k \in 1..Len(observed) :
        observed[k].op = "get_topic_messages" =>
            LET o == observed[k]
            IN /\ Len(o.result) <= o.limit
               /\ o.result = LastN(Stored(o.topic), Min(o.limit, Len(Stored(o.topic))))

\* C21, the positive limits only.
C21_PositiveLimit ==
    \A k \in 1..Len(observed) :
        (observed[k].op = "get_topic_messages" /\ observed[k].limit > 0) =>
            LET o == observed[k]
            IN /\ Len(o.result) <= o.limit
               /\ o.result = LastN(Stored(o.topic), Min(o.limit, Len(Stored(o.topic))))

\* C21, last part: a get_topic_messages call changes no topic and creates none.
C21_CreatesNoTopic ==
    [][(observed' # <<>> /\ observed'[1].op = "get_topic_messages") => topics' = topics]_vars


\* The number of subscribe calls made on topic t.
SubscribeCalls(t) == Cardinality({k \in DOMAIN subscribedAt : k[1] = t})

\* C22: get_topic_info() has one entry per existing topic, whose message_count
\* is the number of messages stored, whose consumers_count is the number of
\* subscribe calls made on the topic and whose latest_message is the most
\* recently published message (none for an empty topic); after more publishes
\* than the capacity, message_count is the capacity.
C22_InfoMatchesStore ==
    \A k \in 1..Len(observed) :
        observed[k].op = "get_topic_info" =>
            LET info == observed[k].result
            IN /\ DOMAIN info = DOMAIN topics
               /\ \A t \in DOMAIN info :
                    LET pub == Published(t)
                    IN /\ info[t].message_count = Len(topics[t])
                       /\ info[t].message_count = Min(Len(pub), max_messages_per_topic)
                       /\ info[t].consumers_count = SubscribeCalls(t)
                       /\ pub = <<>> => info[t].latest_message = <<>>
                       /\ pub # <<>> =>
                            /\ Len(info[t].latest_message) = 1
                            /\ info[t].latest_message[1] = pub[Len(pub)]
                       /\ Len(pub) > max_messages_per_topic =>
                            info[t].message_count = max_messages_per_topic

\* A get_topic_info call reports a topic that was published to more often
\* than its capacity and subscribed to, next to an empty topic.
C22_Witness ==
    /\ observed # <<>>
    /\ observed[1].op = "get_topic_info"
    /\ \E t \in DOMAIN observed[1].result :
        /\ Len(Published(t)) > max_messages_per_topic
        /\ observed[1].result[t].consumers_count >= 1
    /\ \E t \in DOMAIN observed[1].result : observed[1].result[t].message_count = 0


(***************************************************************************)
(* Properties of the lock.                                                 *)
(***************************************************************************)
\* The threads inside a `with self.lock` block.
InsideLock == {c \in DOMAIN calls : calls[c].pc # "acquire"}

\* The delivery threads whose callback has not returned.
RunningCallbacks == {i \in 1..Len(threads) : threads[i].pc \in {"started", "in_callback"}}

\* C23 (state part): the lock is owned only by a thread that is inside a
\* create_topic, send_message or subscribe call and past its acquisition, so
\* never by a thread on account of a callback it runs or dispatched; and the
\* owner can always take its next step, whatever the callbacks do.
C23_LockOnlyInsideCall ==
    /\ lock.owner # 0 => (lock.owner \in InsideLock /\ ENABLED LockProgress)
    /\ lock.owner = 0 => InsideLock = {}
    /\ \A i \in RunningCallbacks :
           lock.owner = ThreadCaller(i) => ThreadCaller(i) \in InsideLock

\* C23: no thread holds the bus lock while a consumer callback executes, so
\* with callbacks running or stuck every create_topic, send_message and
\* subscribe call that was begun completes, also one made by a callback.
C23_CallsComplete ==
    /\ []C23_LockOnlyInsideCall
    /\ []<>(DOMAIN calls = {})

\* Calls completed while a callback had not returned: a callback's own
\* publish has returned, and another call returned while a callback was still
\* running.
C23_Witness ==
    /\ DOMAIN calls = {}
    /\ lock.owner = 0
    /\ \E k \in 1..Len(sent) : sent[k].caller \notin Callers /\ sent[k].returned
    /\ \E i \in RunningCallbacks :
           \E k \in 1..Len(sent) : k > threads[i].seq /\ sent[k].returned


\* The send_message calls that have appended their message, per topic.
PublishedBy(t) == SelectSeq(sent, LAMBDA s : s.topic = t)

\* C24 (state part): at most one thread is inside a `with self.lock` block and
\* it owns the lock; messages_sent counts exactly the appends made; the stored
\* messages of a topic are the most recent appends in the order in which
\* their publishes acquired the lock; and a thread inside send_message can
\* always re-acquire the lock for create_topic and _notify_consumers.
C24_MutualExclusion ==
    /\ Cardinality(InsideLock) <= 1
    /\ \A c \in InsideLock : lock.owner = c /\ lock.count >= 1
    /\ metrics.messages_sent = Len(sent)
    /\ \A j, k \in 1..Len(sent) : j < k => sent[j].ticket < sent[k].ticket
    /\ \A t \in DOMAIN topics :
           topics[t] = LastN(Published(t), Min(Len(Published(t)), max_messages_per_topic))
    /\ \A c \in DOMAIN calls :
           calls[c].pc \in {"create_acquire", "notify_acquire"} =>
               (CanAcquire(c) /\ ENABLED NestedAcquire(c))

\* C24: create_topic, send_message and subscribe are mutually exclusive and
\* each publish is one atomic step for the others; once all K concurrent
\* publishes have returned, messages_sent equals K.
C24_PublishesAtomic ==
    /\ C24_MutualExclusion
    /\ DOMAIN calls = {} =>
           metrics.messages_sent = Cardinality({k \in 1..Len(sent) : sent[k].returned})

\* Two threads are inside send_message on the same topic at the same time, one
\* waiting for the lock while the other has re-acquired it, after an earlier
\* publish.
C24_Contention ==
    \E c, d \in DOMAIN calls :
        /\ c # d
        /\ calls[c].op = "send_message" /\ calls[c].pc = "notify"
        /\ lock.count = 2
        /\ calls[d].op = "send_message" /\ calls[d].pc = "acquire"
        /\ calls[d].topic = calls[c].topic

C24_Witness ==
    /\ C24_Contention
    /\ Len(sent) >= 2


\* The number of messages appended to the topic of publish n after it.
LaterAppends(n) ==
    Cardinality({k \in (n + 1)..Len(sent) : sent[k].topic = sent[n].topic})

\* Publish n's message is where it belongs in its topic, and in what a read
\* made in this state returned.
VisibleToReads(n) ==
    LET t == sent[n].topic
        m == sent[n].message
        at == Len(Stored(t)) - LaterAppends(n)
    IN /\ at >= 1
       /\ Stored(t)[at] = m
       /\ \A k \in 1..Len(observed) :
            /\ (observed[k].op = "get_topic_messages" /\ observed[k].topic = t) =>
                   /\ Len(observed[k].result) > LaterAppends(n)
                   /\ observed[k].result[Len(observed[k].result) - LaterAppends(n)] = m
            /\ observed[k].op = "get_topic_info" =>
                   /\ t \in DOMAIN observed[k].result
                   /\ observed[k].result[t].message_count > LaterAppends(n)
                   /\ LaterAppends(n) = 0 => observed[k].result[t].latest_message = <<m>>

PublishesTo(t, k) == {j \in 1..k : sent[j].topic = t}

\* The submissions accepted and answered.
Accepted == {k \in 1..Len(responses) : responses[k].outcome = "published"}

\* The handlers that have published the chat message and not yet the record.
BetweenPublishes == {c \in DOMAIN calls : calls[c].pc \in {"analyze", "send_result"}}

\* C26: each accepted submission publishes once to the chat topic, then
\* classifies, then publishes the record once to the results topic: every
\* publish belongs to a submission, messages_sent is 2 per accepted submission
\* once the handlers have returned, and every record on the results topic
\* follows the publish of its chat message.
C26_TwoPublishesInOrder ==
    /\ Cardinality(PublishesTo(results_topic, Len(sent))) = Cardinality(Accepted)
    /\ Cardinality(PublishesTo(chat_topic, Len(sent)))
           = Cardinality(Accepted) + Cardinality(BetweenPublishes)
    /\ metrics.messages_sent = Len(sent)
    /\ DOMAIN calls = {} => metrics.messages_sent = 2 * Cardinality(Accepted)
    /\ \A c \in DOMAIN calls : calls[c].pc = "send_result" => calls[c].analysis # <<>>
    /\ \A k \in PublishesTo(results_topic, Len(sent)) :
           LET r == sent[k].message.data
           IN /\ Cardinality(PublishesTo(results_topic, k))
                  <= Cardinality(PublishesTo(chat_topic, k))
              /\ \E j \in PublishesTo(chat_topic, k) :
                     /\ sent[j].message.data.username = r.username
                     /\ r.text # <<>> => sent[j].message.data.message = r.text

\* Two submissions were accepted through different entry points with their
\* publishes interleaved, one of them classified beyond the default record.
C26_Witness ==
    /\ DOMAIN calls = {}
    /\ Cardinality(Accepted) = 2
    /\ \E j, k \in Accepted : responses[j].handler # responses[k].handler
    /\ Len(sent) = 4
    /\ sent[1].topic = chat_topic /\ sent[2].topic = chat_topic
    /\ \E k \in 3..4 : sent[k].message.data.text # <<>>


\* The pairs <<n, c>> of a publish n and a consumer c that was registered on
\* the topic of n when n was made.
RegisteredAtPublish ==
    {p \in (1..Len(sent)) \X (1..MaxLockCalls) :
        /\ p[2] <= Len(consumers[sent[p[1]].topic])
        /\ subscribedAt[<<sent[p[1]].topic, p[2]>>] < p[1]}

\* C27: whenever no bus call is in progress, messages_sent is the number of
\* send_message calls that returned and messages_consumed is the number of
\* pairs of a publish and a consumer registered on its topic at that publish,
\* one per started delivery thread whatever became of its callback; this is
\* what get_metrics returns.
C27_MetricsWhenQuiescent ==
    DOMAIN calls = {} =>
        /\ metrics.messages_sent = Cardinality({n \in 1..Len(sent) : sent[n].returned})
        /\ metrics.messages_consumed = Cardinality(RegisteredAtPublish)
        /\ metrics.messages_consumed = Len(threads)
        /\ \A k \in 1..Len(observed) :
               observed[k].op = "get_metrics" =>
                   /\ observed[k].result.messages_sent = Len(sent)
                   /\ observed[k].result.messages_consumed = Cardinality(RegisteredAtPublish)

\* The metrics are read with no call in progress after a publish to a topic
\* with two consumers, one callback having raised and one having returned,
\* and a publish made before a consumer was registered.
C27_Witness ==
    /\ DOMAIN calls = {}
    /\ observed # <<>>
    /\ observed[1].op = "get_metrics"
    /\ \E i, j \in 1..Len(threads) :
           /\ threads[i].seq = threads[j].seq
           /\ threads[i].pc = "uncaught"
           /\ threads[j].pc = "done"
    /\ \E n \in 1..Len(sent) :
           /\ Len(consumers[sent[n].topic]) > 0
           /\ \A c \in 1..Len(consumers[sent[n].topic]) : <<n, c>> \notin RegisteredAtPublish


(***************************************************************************)
(* Properties of the dedup sets.                                           *)
(***************************************************************************)
\* C28: whenever no delivery is in progress, processed_message_ids holds at
\* most its ceiling of keys and sentiment_history at most MAX_HISTORY_SIZE
\* plus one cleanup period of keys, under any interleaving of the deliveries.
C28_DedupSetsBounded ==
    Quiescent =>
        /\ Cardinality(processed_message_ids) <= ProcessedIdsCeiling
        /\ Cardinality(sentiment_history) <= HistoryBound

\* C28, the first set only.
C28_ProcessedIdsBounded ==
    Quiescent => Cardinality(processed_message_ids) <= ProcessedIdsCeiling


(***************************************************************************)
(* Properties of the thresholds.                                           *)
(***************************************************************************)
LabelAndSeverity(r, label, severity) ==
    r.sentiment_label = label /\ r.severity = severity

\* C29: when no crisis phrase matches, the label and the severity follow from
\* the adjusted score s by inclusive thresholds. With a context signal:
\* s <= -0.4 NEGATIVE/HIGH, -0.4 < s <= -0.15 NEGATIVE/MEDIUM, s >= 0.4
\* POSITIVE/HIGH, 0.15 <= s < 0.4 POSITIVE/MEDIUM, else NEUTRAL/LOW. Without:
\* s <= -0.1 NEGATIVE/MEDIUM, s >= 0.1 POSITIVE/MEDIUM, else NEUTRAL/LOW.
\* The severity is LOW exactly when the label is NEUTRAL.
C29_InclusiveThresholds ==
    (returned # <<>> /\ ~HasAnyCrisisPhrase(call[1].text))
    => LET r == returned[1]
           s == r.sentiment_score
       IN /\ r.mental_health_context.has_any_context =>
                /\ s <= -400 => LabelAndSeverity(r, "NEGATIVE", "HIGH")
                /\ (-400 < s /\ s <= -150) => LabelAndSeverity(r, "NEGATIVE", "MEDIUM")
                /\ s >= 400 => LabelAndSeverity(r, "POSITIVE", "HIGH")
                /\ (150 <= s /\ s < 400) => LabelAndSeverity(r, "POSITIVE", "MEDIUM")
                /\ (-150 < s /\ s < 150) => LabelAndSeverity(r, "NEUTRAL", "LOW")
          /\ ~r.mental_health_context.has_any_context =>
                /\ s <= -100 => LabelAndSeverity(r, "NEGATIVE", "MEDIUM")
                /\ s >= 100 => LabelAndSeverity(r, "POSITIVE", "MEDIUM")
                /\ (-100 < s /\ s < 100) => LabelAndSeverity(r, "NEUTRAL", "LOW")
          /\ r.severity = "LOW" <=> r.sentiment_label = "NEUTRAL"

\* A call with a context signal returned NEGATIVE/HIGH for an adjusted score
\* of exactly -0.4.
C29_Witness ==
    /\ returned # <<>>
    /\ "text" \in DOMAIN returned[1]
    /\ returned[1].mental_health_context.has_any_context
    /\ returned[1].sentiment_score = -400
    /\ LabelAndSeverity(returned[1], "NEGATIVE", "HIGH")


(***************************************************************************)
(* Properties of the context bundle.                                       *)
(***************************************************************************)
\* The number of keywords of the given weight that the text contains.
MatchesOfWeight(keywords, text, weight) ==
    Cardinality({k \in 1..Len(keywords) :
                    /\ keywords[k].weight = weight
                    /\ ContainsIgnoringCase(text, keywords[k].keyword)})

\* The sum of the weights of the keywords that the text contains.
SumOfMatchedWeights(keywords, text) ==
    10 * MatchesOfWeight(keywords, text, 10) + 12 * MatchesOfWeight(keywords, text, 12)
        + 15 * MatchesOfWeight(keywords, text, 15) + 20 * MatchesOfWeight(keywords, text, 20)

\* C30: in the context bundle mental_health_score is the sum of the weights of
\* the negative-dictionary keywords contained in the normalized text and
\* positive_context_score the sum of the weights of the positive-dictionary
\* keywords contained in it, each score depending on its own dictionary only.
C30_ScoresAreKeywordSums ==
    returned # <<>> =>
        LET r == returned[1]
        IN /\ r.context.mental_health_score
                  = SumOfMatchedWeights(mental_health_keywords, r.cleaned_text)
           /\ r.context.positive_context_score
                  = SumOfMatchedWeights(positive_mental_health_keywords, r.cleaned_text)

\* C30, for the texts whose emoticon score is 0.
C30_SumsWithoutEmoticons ==
    (returned # <<>> /\ returned[1].context.emoticon_score = 0) =>
        LET r == returned[1]
        IN /\ r.context.mental_health_score
                  = SumOfMatchedWeights(mental_health_keywords, r.cleaned_text)
           /\ r.context.positive_context_score
                  = SumOfMatchedWeights(positive_mental_health_keywords, r.cleaned_text)


(***************************************************************************)
(* Properties of the recent messages.                                      *)
(***************************************************************************)
\* Whenever no delivery is in progress the list holds at most max_messages
\* records.
C31_RecentBounded ==
    Quiescent => Len(recent_messages) <= max_messages

\* The list only ever loses its oldest record.
C31_DropsOldest ==
    Len(recent_messages') < Len(recent_messages) => recent_messages' = Tail(recent_messages)

\* What get_recent_messages(limit) returns: at most limit records, no two of
\* one processed_id, no record before one of a later timestamp.
C31_ReadLimitedUniqueNewestFirst ==
    observed # <<>> =>
        LET result == observed[1].result
        IN /\ Len(result) <= observed[1].limit
           /\ \A j, k \in 1..Len(result) :
                  j < k => /\ result[j].processed_id # result[k].processed_id
                           /\ ~StrLess(result[j].timestamp, result[k].timestamp)

\* C31: recent_messages holds at most max_messages records in every state
\* where no delivery is in progress and drops its oldest record first;
\* get_recent_messages(limit) returns at most limit records, no two of them
\* with the same processed_id, ordered newest timestamp first.
C31_RecentMessages ==
    /\ [](C31_RecentBounded /\ C31_ReadLimitedUniqueNewestFirst)
    /\ [][C31_DropsOldest]_vars

\* A read of a list that holds two records of one processed_id returned two
\* records of different timestamps.
C31_Witness ==
    /\ observed # <<>>
    /\ \E j, k \in 1..Len(recent_messages) :
           j < k /\ recent_messages[j].processed_id = recent_messages[k].processed_id
    /\ Len(observed[1].result) = 2
    /\ observed[1].result[1].timestamp # observed[1].result[2].timestamp


(***************************************************************************)
(* Properties of submissions with their deliveries.                        *)
(***************************************************************************)
\* The accepted submissions, in order.
AcceptedSubmissions == SelectSeq(responses, LAMBDA r : r.outcome = "published")

\* The accepted submissions are pairwise distinct in username, text or
\* submission time.
DistinctSubmissions ==
    \A j, k \in 1..Len(AcceptedSubmissions) :
        j < k => AcceptedSubmissions[j].key # AcceptedSubmissions[k].key

\* C32: two distinct accepted submissions, however close in time they are
\* published and however short their text, are each delivered to the
\* statistics callback: no delivery of theirs is dropped as a duplicate.
C32_DistinctNeverDropped ==
    DistinctSubmissions =>
        \A i \in 1..Len(threads) : threads[i].pc \notin {"dropped_ic", "dropped_sc"}

\* C32, for internal_callback alone.
C32_NotDroppedByProcessedId ==
    DistinctSubmissions => \A i \in 1..Len(threads) : threads[i].pc # "dropped_ic"

\* C32, for sentiment_callback alone.
C32_NotDroppedByKey ==
    DistinctSubmissions => \A i \in 1..Len(threads) : threads[i].pc # "dropped_sc"


(***************************************************************************)
(* Properties of the aggregate statistics.                                 *)
(***************************************************************************)
\* total_messages is the sum of the per-label counts.
C33_TotalIsSumOfCounts ==
    Quiescent => stats.total_messages = SumOfCounts

\* crisis_alerts is the CRISIS count.
C33_AlertsAreCrisisCount ==
    Quiescent => stats.crisis_alerts = stats.sentiment_counts["CRISIS"]

\* mental_health_messages is at most total_messages.
C33_ContextAtMostTotal ==
    Quiescent => stats.mental_health_messages <= stats.total_messages

\* With total_messages 0 every derived percentage is the number 0, and a
\* percentage that was divided has a positive divisor.
C33_ZeroTotalNoDivision ==
    /\ stats.total_messages = 0 => \A k \in PercentKeys : get_current_stats[k] = 0
    /\ stats.total_messages > 0 => \A k \in PercentKeys : get_current_stats[k].divisor > 0

\* C33: in every state where no delivery is in progress total_messages equals
\* the sum of the four per-label counts, crisis_alerts equals the CRISIS count
\* and mental_health_messages is at most total_messages; with total_messages 0
\* every derived percentage is 0 and nothing is divided.
C33_StatsConsistent ==
    /\ C33_TotalIsSumOfCounts
    /\ C33_AlertsAreCrisisCount
    /\ C33_ContextAtMostTotal
    /\ C33_ZeroTotalNoDivision


(***************************************************************************)
(* Properties of the order of deliveries. Thread i of the results topic    *)
(* delivers the i-th record published to it.                               *)
(***************************************************************************)
\* The dedup check of an earlier record precedes that of a later one.
C34_ChecksInPublishedOrder ==
    \A i, j \in 1..Len(threads) :
        (i < j /\ threads[j].pc # "started") => threads[i].pc # "started"

\* The statistics updates are sent out in the order of the publishes.
C34_UpdatesInPublishedOrder ==
    \A a, b \in 1..Len(events) :
        (/\ a < b
         /\ events[a].event = "sentiment_update"
         /\ events[b].event = "sentiment_update") => events[a].thread <= events[b].thread

\* C34: a consumer handles the messages of a topic in the order they were
\* published: the effects of its callback for an earlier message (its dedup
\* check, its statistics update) take place before those for a later one.
C34_HandledInPublishedOrder ==
    C34_ChecksInPublishedOrder /\ C34_UpdatesInPublishedOrder

====
